---------------------------- MODULE Spec2Model ----------------------------
(***************************************************************************)
(* BetterFinder: the indexing pipeline of app/core/indexer.py              *)
(* (FileSystemIndexer: start_indexing, scan_directory, _indexing_worker,   *)
(* _execute_batch_insert, _insert_individually, stop) and the search       *)
(* window's thread handling of app/gui/main_window.py (SearchThread,       *)
(* SpotlightWindow.perform_search / stop_current_search), the opening of   *)
(* the database, the directory walk of scan_directory, and the query       *)
(* engine of app/core/search_engine.py (search, _parse_query,              *)
(* _build_where_clause, search_by_regex).                                  *)
(*                                                                         *)
(* Threads are interleaved at the granularity of their accesses to shared  *)
(* objects (the queue, self.index_thread, the database file, the Qt event  *)
(* queue); thread-local statements are folded into the neighbouring step.  *)
(***************************************************************************)
EXTENDS Integers, Sequences, FiniteSets, TLC

(***************************************************************************)
(* Bounds of the model and constants of the program.                       *)
(***************************************************************************)
\* indexer.py:183 sets batch_size = 1000; the model scales it down so that a
\* full batch and a partial batch both occur with a handful of files.
batch_size == 3
\* indexer.py:239
max_retries == 5

\* indexer.py:240: retry_delay = 1.0, in sixteenths of a second
base_delay == 16
\* search_engine.py:70, 345: max_results = 1000 by default; the model scales
\* the default down so that the table holds more matches than it.
max_results == 3
\* The searches the user triggers in one run of the search window; search n
\* runs in SearchThread n.
MaxSearches == 3
Searches == 1..MaxSearches
\* Threads that call FileSystemIndexer.start_indexing; each call that gets past
\* the guard is one scan pass, with the consumer thread and the scan threads it
\* starts.
Callers == {1, 2}

\* get_drives(): the fixed / remote volumes of the machine.
Drives == {"C", "D"}

\* The files os.walk yields under each drive root, in walk order, during the
\* scan pass of caller c (the file system changes from one pass to the other:
\* the pass of caller 2 finds drive D empty).
Files == [c \in Callers |-> [d \in Drives |->
            IF d = "C" THEN (IF c = 1 THEN <<"z", "a">> ELSE <<"a">>)
            ELSE (IF c = 1 THEN <<"x", "b">> ELSE <<>>)]]

\* The files os.stat fails on (PermissionError, FileNotFoundError, OSError).
Unstatable == {"z"}

\* What os.stat reports (size, mtime) for file k during the scan pass of
\* caller c: the two passes see different metadata for the same file.
Stat(c, k) == c

\* The file whose name sqlite3 cannot bind when the file system holds such a
\* name (an unpaired surrogate: UnicodeEncodeError, not an sqlite3.Error).
BadFile == "x"

Keys == {"a", "b", "x", "z"}

NoneItem == "None"

\* A queued item that is no dict with the five keys: reading it at lines
\* 194-200 raises.
Malformed == "Malformed"

VARIABLES
    file_queue,     \* self.file_queue: sequence of events and None sentinels
    store,          \* table files of the database file: rows in rowid order
    index_thread,   \* self.index_thread: 0 (None) or the consumer last started
    db_lock,        \* self.db_lock: "free" or its holder
    mainConn,       \* self.conn: "open" | "closed"
    cpc,            \* per caller: position inside start_indexing
    wst,            \* per caller and drive: scan thread "none" | "run" | "done"
    todo,           \* per caller and drive: files the scan thread still has to put
    kpc,            \* per consumer thread: position inside _indexing_worker
    kconn,          \* per consumer: thread_conn "none" | "open" | "closed"
    batch,          \* per consumer: the local list batch
    retry,          \* per consumer: loop variable retry of _execute_batch_insert
    ctx,            \* per consumer: call site of the running _execute_batch_insert
    idx,            \* per consumer: position of _insert_individually in the batch
    kexit,          \* per consumer: how the thread ended
    txn,            \* per consumer: rows written in thread_conn's open transaction
    spc,            \* position of the thread running stop()
    sawAlive,       \* stop(): outcome of its is_alive() test
    nameBad,        \* whether file BadFile carries an unencodable name
    dbAnswers,      \* the answers the database gives to a write in this run
    \* ---- history variables (never read by the actions' guards) ----
    putIds,         \* events put on the queue, as <<pass, key>>
    deqCount,       \* how often each event was taken by a consumer
    handed,         \* events passed to _execute_batch_insert in a batch
    sawNone,        \* per consumer: it has dequeued a None sentinel
    lockedOnly,     \* per consumer: every batch attempt so far failed on a lock
    fellBack,       \* events of batches that fell back after lock failures only
    indiv,          \* events _insert_individually has attempted
    written,        \* events committed to the store
    discarded,      \* events removed from the queue by stop()
    stopLog,        \* the steps stop() performed, in order
    batchAtStop,    \* events in a live consumer's batch when stop() was called
    queueAtStop,    \* events waiting in the queue when stop() was called
    lastUpsert,     \* per key: metadata of the latest committed upsert (0: none)
    \* ---- the search window (SpotlightWindow and its SearchThreads) ----
    search_thread,  \* self.search_thread: 0 (None) or a SearchThread
    tpc,            \* per SearchThread: position inside run()
    stop_requested, \* per SearchThread: its flag stop_requested
    connected,      \* per SearchThread: its signals are connected to the window
    eventq,         \* the UI thread's event queue: queued slot calls
    upc,            \* position of the UI thread
    \* ---- history variables of the search window ----
    emitted,        \* SearchThreads that have emitted results_ready
    stale,          \* SearchThreads superseded before they emitted
    displayed,      \* what the result list showed, in order: the results of a
                    \* thread (display_results), or 0 (the list was cleared)
    query,          \* perform_search: its local variable query while it runs
                    \* with a non-empty text, <<>> otherwise
    st_query,       \* SearchThread.query of each thread
    sres,           \* each thread's engine call: why is how it went, "none"
                    \* (not made), "ok", "store" (database error), "pattern"
                    \* (re.error); path is the method that ran, "regex",
                    \* "simple" or "complex"; pattern is the regex pattern
    errors,         \* SearchThreads that have emitted error_occurred
    conn,           \* FileSystemIndexer.conn: the database self.conn is open on
    thread_conn,    \* the database the consumer's thread_conn is open on
    local_conn,     \* the database SearchEngine.local.conn is open on
    has_table,      \* per database: table files exists
    dbrows,         \* per database: the keys of the rows of table files
    opres,          \* how the upserts and the queries went: "none" | "ok" | "error"
    unreadable,     \* the directories os.scandir fails on
    unstatable,     \* the files os.stat fails on
    wpc,            \* scan_directory of the tree: "idle" | "walk" | "done"
    wstack,         \* os.walk: the directories still to be listed, next first
    wfiles,         \* the files of the directory being yielded, not yet visited
    wqueue,         \* the events scan_directory has put on the queue, in order
    se_query,       \* SearchEngine.search: its arguments query and file_type
    file_type,      \* ("" is no filter)
    qpc,            \* where search is: "idle" | "start" | "simple" | "complex" |
                    \* "parsed" | "built" | "done"
    parsed_query,   \* _complex_search: the tree _parse_query returned
    sql,            \* the SELECT that was built: predicate, type filter, limit
    results,        \* the rows search returned (row numbers of the table)
    limit,          \* the argument max_results of the call
    limit_passed,   \* whether the caller passed it, or it is the default
    cursor_rows,    \* search_by_regex: the fetched rows not yet examined
    examined,       \* search_by_regex: the rows examined so far, in order
    regex_results,  \* search_by_regex: results, in order
    rpath,          \* the read path that is running: "simple" | "complex" |
                    \* "regex" | "indexer", or "none"
    ranswers,       \* what the database answers to the 1st, 2nd, 3rd execute
    rpc,            \* "idle" | "try" | "backoff" | "returned" | "failed"
    r_retry,        \* the loop variable retry
    retry_delay,    \* the delay of the next sleep, in seconds
    slept,          \* the delays slept so far
    attempts,       \* the number of cursor.execute calls made
    reconnects,     \* the number of close() / _get_connection() pairs
    rerr,           \* the error of the last execute: "none" | "locked" | "operr"
    handles,        \* each connection handle: its state, the thread that
                    \* opened it, the threads that have called it
    b_batch,        \* _execute_batch_insert: the records of its batch
    b_answers,      \* what the database answers to each executemany
    bpc,            \* "idle" | "try" | "sleep" | "individual" | "returned"
    b_retry,        \* the loop variable retry
    b_retry_delay,  \* retry_delay, in sixteenths of a second
    b_slept,        \* the delays slept so far, in sixteenths of a second
    b_tried,        \* the answers of the executemany calls made so far
    b_individual,   \* _insert_individually was called
    b_stored        \* the records committed

\* the variables of the indexing pipeline
pipeVars == <<file_queue, store, index_thread, db_lock, mainConn, cpc, wst, todo, kpc,
              kconn, batch, retry, ctx, idx, kexit, txn, spc, sawAlive, nameBad, dbAnswers>>
\* the variables of the specifications of single components
openVars == <<conn, thread_conn, local_conn, has_table, dbrows, opres>>
walkVars == <<unreadable, unstatable, wpc, wstack, wfiles, wqueue>>
queryVars == <<se_query, file_type, qpc, parsed_query, sql, results, limit, limit_passed,
               cursor_rows, examined, regex_results>>
readVars == <<rpath, ranswers, rpc, r_retry, retry_delay, slept, attempts, reconnects, rerr>>
connVars == <<handles>>
batchVars == <<b_batch, b_answers, bpc, b_retry, b_retry_delay, b_slept, b_tried, b_individual, b_stored>>
auxVars == <<openVars, walkVars, queryVars, readVars, connVars, batchVars>>
ivars == <<file_queue, store, index_thread, db_lock, mainConn, cpc, wst, todo, kpc,
           kconn, batch, retry, ctx, idx, kexit, txn, spc, sawAlive, nameBad, dbAnswers,
           auxVars>>
hvars == <<putIds, deqCount, handed, sawNone, lockedOnly, fellBack, indiv, written, discarded, stopLog, batchAtStop,
           queueAtStop, lastUpsert>>
guiVars == <<search_thread, tpc, stop_requested, connected, eventq, upc, emitted,
             stale, displayed, query, st_query, sres, errors>>
vars == <<ivars, hvars, guiVars>>

\* the environment: the file system and the database's behaviour
envVars == <<nameBad, dbAnswers, auxVars>>
\* the variables of the scan threads, of the consumer threads, of stop()
scanVars == <<wst, todo>>
consVars == <<kpc, kconn, batch, retry, ctx, idx, kexit, txn>>
stopVars == <<spc, sawAlive, db_lock, mainConn>>
stopHist == <<discarded, stopLog, batchAtStop, queueAtStop>>
consHist == <<deqCount, handed, sawNone, lockedOnly, fellBack, indiv, written, lastUpsert>>

EventIds == Callers \X Keys

Id(e) == <<e.p, e.k>>

IsEvent(e) == e.k \notin {NoneItem, Malformed}

\* The dict scan_directory puts on the queue (k stands for (path, filename),
\* m for size / last_modified); p is the scan pass it belongs to.
Event(c, k) == [k |-> k, m |-> Stat(c, k), p |-> c, by |-> "scan"]

\* The None sentinel; p and by record who put it and are never inspected by
\* the consumer.
Sentinel(c, who) == [k |-> NoneItem, m |-> 0, p |-> c, by |-> who]

RECURSIVE SeqToSet(_)
SeqToSet(s) == IF s = <<>> THEN {} ELSE {Head(s)} \cup SeqToSet(Tail(s))

EventIdsOf(s) == {Id(e) : e \in {x \in SeqToSet(s) : IsEvent(x)}}

\* threading.Thread.is_alive() of a consumer thread
is_alive(c) == c # 0 /\ kpc[c] \notin {"none", "done"}

(***************************************************************************)
(* The store: INSERT OR REPLACE under UNIQUE(path, filename)               *)
(***************************************************************************)
RECURSIVE DeleteKey(_, _)
DeleteKey(rows, k) ==
    IF rows = <<>> THEN <<>>
    ELSE IF Head(rows).k = k THEN DeleteKey(Tail(rows), k)
         ELSE <<Head(rows)>> \o DeleteKey(Tail(rows), k)

\* A plain INSERT that ignores the conflict on (path, filename).
InsertAppend(rows, rec) == Append(rows, [k |-> rec.k, m |-> rec.m])

\* INSERT OR REPLACE INTO files ...: the conflicting row is deleted and the new
\* row gets the next rowid.
InsertOrReplace(rows, rec) == Append(DeleteKey(rows, rec.k), [k |-> rec.k, m |-> rec.m])

\* cursor.executemany(INSERT OR REPLACE ..., recs) followed by commit
RECURSIVE ExecuteMany(_, _)
ExecuteMany(rows, recs) ==
    IF recs = <<>> THEN rows
    ELSE ExecuteMany(InsertOrReplace(rows, Head(recs)), Tail(recs))

RECURSIVE LastMeta(_, _, _)
LastMeta(recs, k, dflt) ==
    IF recs = <<>> THEN dflt
    ELSE LastMeta(Tail(recs), k, IF Head(recs).k = k THEN Head(recs).m ELSE dflt)

\* lastUpsert after the records recs were committed in order
Upserted(recs) == [k \in Keys |-> LastMeta(recs, k, lastUpsert[k])]

\* What the database can answer to one write attempt: success, "database is
\* locked" (OperationalError), another OperationalError (disk I/O error,
\* readonly database, ...), or an sqlite3.Error that is no OperationalError
\* (DatabaseError: database disk image is malformed, ...).
Outcomes == {"ok", "locked", "operr", "dberr"}

\* sqlite3 cannot bind the record (UnicodeEncodeError)
Unbindable(rec) == nameBad /\ rec.k = BadFile

HasUnbindable(recs) == \E i \in 1..Len(recs) : Unbindable(recs[i])

(***************************************************************************)
(* Initial state: FileSystemIndexer.__init__ has run (setup_database       *)
(* opened the on-disk database and created the table), nothing is started. *)
(***************************************************************************)
InitIndexer ==
    /\ file_queue = <<>>
    /\ store = <<>>
    /\ index_thread = 0
    /\ db_lock = "free"
    /\ mainConn = "open"
    /\ cpc = [c \in Callers |-> "none"]
    /\ wst = [c \in Callers |-> [d \in Drives |-> "none"]]
    /\ todo = [c \in Callers |-> [d \in Drives |-> <<>>]]
    /\ kpc = [c \in Callers |-> "none"]
    /\ kconn = [c \in Callers |-> "none"]
    /\ batch = [c \in Callers |-> <<>>]
    /\ retry = [c \in Callers |-> 0]
    /\ ctx = [c \in Callers |-> "none"]
    /\ idx = [c \in Callers |-> 0]
    /\ kexit = [c \in Callers |-> "none"]
    /\ txn = [c \in Callers |-> <<>>]
    /\ spc = "idle"
    /\ sawAlive = FALSE
    /\ putIds = {}
    /\ deqCount = [e \in EventIds |-> 0]
    /\ handed = {}
    /\ sawNone = [c \in Callers |-> FALSE]
    /\ lockedOnly = [c \in Callers |-> TRUE]
    /\ fellBack = {}
    /\ indiv = {}
    /\ written = {}
    /\ discarded = {}
    /\ stopLog = <<>>
    /\ batchAtStop = {}
    /\ queueAtStop = {}
    /\ lastUpsert = [k \in Keys |-> 0]

\* The databases a connection can be open on: the file db_path, the private
\* in-memory database of the indexer's fallback connection, the private
\* in-memory database of the search engine's fallback connection.
DBs == {"disk", "mem_indexer", "mem_engine"}
Ops == {"upsert", "indexer_search", "engine_search"}

\* setup_database has opened db_path and created the table; no other
\* connection is open.
InitOpened ==
    /\ conn = "disk"
    /\ thread_conn = "none"
    /\ local_conn = "none"
    /\ has_table = [d \in DBs |-> d = "disk"]
    /\ dbrows = [d \in DBs |-> {}]
    /\ opres = [o \in Ops |-> "none"]

\* No scan of the directory tree is running.
InitWalkIdle ==
    /\ unreadable = {}
    /\ unstatable = {}
    /\ wpc = "idle"
    /\ wstack = <<>>
    /\ wfiles = <<>>
    /\ wqueue = <<>>

\* No call of SearchEngine.search is in progress.
InitQueryIdle ==
    /\ se_query = <<>>
    /\ file_type = ""
    /\ qpc = "idle"
    /\ parsed_query = [type |-> "none"]
    /\ sql = [where |-> [kind |-> "none"]]
    /\ results = {}
    /\ limit = max_results
    /\ limit_passed = FALSE
    /\ cursor_rows = <<>>
    /\ examined = <<>>
    /\ regex_results = <<>>

\* No read path is running.
InitReadIdle ==
    /\ rpath = "none"
    /\ ranswers = <<>>
    /\ rpc = "idle"
    /\ r_retry = 0
    /\ retry_delay = 1
    /\ slept = <<>>
    /\ attempts = 0
    /\ reconnects = 0
    /\ rerr = "none"

\* The threads of the program: the thread that builds the objects, the
\* consumer thread, and two more threads that call in (SearchThreads).
Threads == {"main", "index", "t1", "t2"}
CallThreads == {"main", "t1", "t2"}

\* The handles: FileSystemIndexer.conn, the consumer's thread_conn, and
\* SearchEngine.local.conn of each calling thread.
LocalHandle(t) == CASE t = "main" -> "local.main" [] t = "t1" -> "local.t1" [] t = "t2" -> "local.t2"
Handles == {"self.conn", "thread_conn"} \cup {LocalHandle(t) : t \in CallThreads}

\* indexer.py:42: FileSystemIndexer.__init__ has run setup_database on the
\* constructing thread; no other handle is open.
InitHandles ==
    handles = [h \in Handles |->
                 IF h = "self.conn"
                 THEN [state |-> "open", owner |-> "main", users |-> {"main"}]
                 ELSE [state |-> "none", owner |-> "none", users |-> {}]]

\* indexer.py:239-240: _execute_batch_insert is not running.
InitBatchIdle ==
    /\ b_batch = <<>>
    /\ b_answers = <<>>
    /\ bpc = "idle"
    /\ b_retry = 0
    /\ b_retry_delay = base_delay
    /\ b_slept = <<>>
    /\ b_tried = <<>>
    /\ b_individual = FALSE
    /\ b_stored = {}

InitAux ==
    InitOpened /\ InitWalkIdle /\ InitQueryIdle /\ InitReadIdle /\ InitHandles /\ InitBatchIdle

\* SpotlightWindow.__init__: no search thread, the event loop is idle.
InitGui ==
    /\ search_thread = 0
    /\ tpc = [t \in Searches |-> "new"]
    /\ stop_requested = [t \in Searches |-> FALSE]
    /\ connected = [t \in Searches |-> FALSE]
    /\ eventq = <<>>
    /\ upc = "loop"
    /\ emitted = {}
    /\ stale = {}
    /\ displayed = <<>>
    /\ query = <<>>
    /\ st_query = [t \in Searches |-> <<>>]
    /\ sres = [t \in Searches |-> [why |-> "none", path |-> "none", pattern |-> <<>>]]
    /\ errors = {}

\* The environment of Spec: any file name may be unencodable, the database may
\* answer a write with any of Outcomes.
Init ==
    /\ InitIndexer
    /\ InitGui
    /\ InitAux
    /\ nameBad \in BOOLEAN
    /\ dbAnswers = Outcomes

(***************************************************************************)
(* FileSystemIndexer.scan_directory                                        *)
(***************************************************************************)
\* lines 146-169: the files of the walk whose os.stat succeeds, in walk order;
\* a file whose stat raises is skipped (line 164-166) and the walk goes on.
scan_directory(c, d) == SelectSeq(Files[c][d], LAMBDA f : f \notin Unstatable)

\* lines 150-163: the scan thread of caller c on drive d puts its next event;
\* the thread ends after its last file.
scan_put(c, d) ==
    /\ wst[c][d] = "run"
    /\ file_queue' = Append(file_queue, Event(c, Head(todo[c][d])))
    /\ putIds' = putIds \cup {<<c, Head(todo[c][d])>>}
    /\ todo' = [todo EXCEPT ![c][d] = Tail(@)]
    /\ wst' = [wst EXCEPT ![c][d] = IF Tail(todo[c][d]) = <<>> THEN "done" ELSE "run"]
    /\ UNCHANGED <<store, index_thread, cpc, consVars, stopVars, envVars, guiVars, consHist,
                   stopHist>>

(***************************************************************************)
(* FileSystemIndexer.start_indexing, called by thread c                    *)
(***************************************************************************)
\* line 175: sqlite3.connect succeeds (TRUE) or raises an sqlite3.Error
ConnectAnswers == IF "operr" \in dbAnswers THEN BOOLEAN ELSE {TRUE}

\* line 109: if self.index_thread and self.index_thread.is_alive(): return
SI_Check(c) ==
    /\ cpc[c] = "none"
    /\ cpc' = [cpc EXCEPT ![c] = IF is_alive(index_thread) THEN "returned" ELSE "start"]
    /\ UNCHANGED <<file_queue, store, index_thread, scanVars, consVars, stopVars,
                   envVars, guiVars, hvars>>

\* lines 113-126: get_drives(); the consumer thread is created, stored in
\* self.index_thread and started (lines 175-180: it opens its own connection,
\* an sqlite3.Error there is caught at line 227 and ends it); then one scan
\* thread per drive is started.
SI_Start(c) ==
    /\ cpc[c] = "start"
    /\ index_thread' = c
    /\ \E ok \in ConnectAnswers :
         /\ kpc' = [kpc EXCEPT ![c] = IF ok THEN "get" ELSE "done"]
         /\ kconn' = [kconn EXCEPT ![c] = IF ok THEN "open" ELSE "none"]
         /\ kexit' = [kexit EXCEPT ![c] = IF ok THEN "none" ELSE "sqlite_error"]
    /\ wst' = [wst EXCEPT ![c] =
                 [d \in Drives |-> IF scan_directory(c, d) = <<>> THEN "done" ELSE "run"]]
    /\ todo' = [todo EXCEPT ![c] = [d \in Drives |-> scan_directory(c, d)]]
    /\ cpc' = [cpc EXCEPT ![c] = "join"]
    /\ UNCHANGED <<file_queue, store, batch, retry, ctx, idx, txn, stopVars, envVars,
                   guiVars, hvars>>

\* Only the first scan thread is joined.
JoinedFirstOnly(c) == {"C"}

\* The scan threads start_indexing waits for at lines 129-130.
JoinedWorkers(c) == Drives

\* lines 129-130: for thread in scan_threads: thread.join()
SI_Join(c) ==
    /\ cpc[c] = "join"
    /\ \A d \in JoinedWorkers(c) : wst[c][d] = "done"
    /\ cpc' = [cpc EXCEPT ![c] = "put"]
    /\ UNCHANGED <<file_queue, store, index_thread, scanVars, consVars, stopVars,
                   envVars, guiVars, hvars>>

\* lines 133-136: self.file_queue.put(None); start_watching() starts the
\* watcher stub, whose thread body is "pass"; start_indexing returns.
SI_PutSentinel(c) ==
    /\ cpc[c] = "put"
    /\ file_queue' = Append(file_queue, Sentinel(c, "start_indexing"))
    /\ cpc' = [cpc EXCEPT ![c] = "done"]
    /\ UNCHANGED <<store, index_thread, scanVars, consVars, stopVars, envVars, guiVars, hvars>>

\* main_window.py:1145: MainWindow.start_indexing starts an IndexingThread
\* (whose run() calls indexer.start_indexing) only while no IndexingThread is
\* running.
NoIndexingThreadRunning == \A c \in Callers : cpc[c] \in {"none", "returned", "done"}

MainWindow_start_indexing(c) ==
    /\ NoIndexingThreadRunning
    /\ SI_Check(c)

(***************************************************************************)
(* FileSystemIndexer._indexing_worker, the consumer thread started by c,   *)
(* with _execute_batch_insert and _insert_individually                     *)
(***************************************************************************)
\* The first record of recs that sqlite3 cannot bind (0: none)
FirstBad(recs) ==
    IF HasUnbindable(recs)
    THEN CHOOSE i \in 1..Len(recs) :
           Unbindable(recs[i]) /\ \A j \in 1..(i - 1) : ~Unbindable(recs[j])
    ELSE 0

\* What the database can answer to consumer c: a connection that holds the
\* write lock in an open transaction is not locked out.
Answers(c) == IF txn[c] = <<>> THEN dbAnswers ELSE dbAnswers \ {"locked"}

\* The outcome of cursor.executemany(..., recs) (lines 244-248) when the
\* database answers o. Each record is bound and then stepped, in order: an
\* unencodable name raises UnicodeEncodeError ("pyerr", no sqlite3.Error) when
\* its record is bound, a database error is raised by the first step.
Effect(o, recs) ==
    IF FirstBad(recs) = 1 THEN "pyerr"
    ELSE IF o = "ok" /\ FirstBad(recs) > 1 THEN "pyerr"
    ELSE o

\* lines 204 / 211 / 223: the call _execute_batch_insert(conn, cursor, batch)
CallBatchInsert(c, b, site) ==
    /\ kpc' = [kpc EXCEPT ![c] = "insert"]
    /\ retry' = [retry EXCEPT ![c] = 0]
    /\ ctx' = [ctx EXCEPT ![c] = site]
    /\ handed' = handed \cup EventIdsOf(b)
    /\ UNCHANGED <<kconn, kexit, idx, txn, lockedOnly, fellBack, indiv>>

\* lines 222-226 with an empty batch: thread_conn.close(), the thread ends
CloseAndEnd(c) ==
    /\ kpc' = [kpc EXCEPT ![c] = "done"]
    /\ kconn' = [kconn EXCEPT ![c] = "closed"]
    /\ kexit' = [kexit EXCEPT ![c] = "clean"]
    /\ retry' = [retry EXCEPT ![c] = 0]
    /\ ctx' = [ctx EXCEPT ![c] = "none"]
    /\ idx' = [idx EXCEPT ![c] = 0]
    /\ UNCHANGED <<txn, lockedOnly, fellBack, indiv>>

\* The batch emptied by the error
BatchDropped(b) == <<>>

\* lines 216-219: "except Exception: continue" after reading the item raised at
\* lines 194-200: the batch list is as it was
AfterUnpackError(b) == b

\* lines 187-207, 216-219 and 222-223: file_queue.get returned an item
ConsumerGet(c) ==
    /\ kpc[c] = "get"
    /\ file_queue # <<>>
    /\ file_queue' = Tail(file_queue)
    /\ LET item == Head(file_queue)
           b == Append(batch[c], item)
       IN IF item.k = NoneItem
          THEN \* lines 190-191: break; then lines 222-226
               /\ batch' = batch
               /\ deqCount' = deqCount
               /\ sawNone' = [sawNone EXCEPT ![c] = TRUE]
               /\ IF batch[c] # <<>>
                  THEN CallBatchInsert(c, batch[c], "final")
                  ELSE CloseAndEnd(c) /\ handed' = handed
          ELSE IF ~IsEvent(item)
          THEN \* lines 194-200 raise; lines 216-219: continue
               /\ batch' = [batch EXCEPT ![c] = AfterUnpackError(@)]
               /\ deqCount' = deqCount
               /\ sawNone' = sawNone
               /\ UNCHANGED <<kpc, kconn, kexit, retry, ctx, idx, txn, handed,
                              lockedOnly, fellBack, indiv>>
          ELSE \* lines 194-207
               /\ batch' = [batch EXCEPT ![c] = b]
               /\ deqCount' = [deqCount EXCEPT ![Id(item)] = @ + 1]
               /\ sawNone' = sawNone
               /\ IF Len(b) >= batch_size
                  THEN CallBatchInsert(c, b, "loop")
                  ELSE UNCHANGED <<kpc, kconn, kexit, retry, ctx, idx, txn, handed,
                                   lockedOnly, fellBack, indiv>>
    /\ UNCHANGED <<store, index_thread, cpc, scanVars, stopVars, envVars, guiVars, putIds,
                   written, lastUpsert, stopHist>>

\* lines 208-215 and 222-226: file_queue.get(timeout=60.0) raised queue.Empty
ConsumerTimeout(c) ==
    /\ kpc[c] = "get"
    /\ file_queue = <<>>
    /\ IF batch[c] # <<>>
       THEN CallBatchInsert(c, batch[c], "timeout")
       ELSE CloseAndEnd(c) /\ handed' = handed
    /\ UNCHANGED <<file_queue, store, index_thread, cpc, scanVars, batch, stopVars,
                   envVars, guiVars, putIds, deqCount, sawNone, written, lastUpsert,
                   stopHist>>

\* _execute_batch_insert returns to its call site: lines 205-207 (batch = [],
\* task_done, next get), 212 (batch = [], next get: the loop goes on), or
\* 223-226 (close, the thread ends).
BatchReturn(c) ==
    /\ kpc' = [kpc EXCEPT ![c] = IF ctx[c] = "final" THEN "done" ELSE "get"]
    /\ kconn' = [kconn EXCEPT ![c] = IF ctx[c] = "final" THEN "closed" ELSE @]
    /\ kexit' = [kexit EXCEPT ![c] = IF ctx[c] = "final" THEN "clean" ELSE @]
    /\ batch' = [batch EXCEPT ![c] = IF ctx[c] = "final" THEN @ ELSE <<>>]
    /\ retry' = [retry EXCEPT ![c] = 0]
    /\ ctx' = [ctx EXCEPT ![c] = "none"]
    /\ idx' = [idx EXCEPT ![c] = 0]
    /\ lockedOnly' = [lockedOnly EXCEPT ![c] = TRUE]

\* An exception leaves _execute_batch_insert. At line 204 it is caught by
\* "except Exception" (line 216): continue, the batch is kept. At line 211 (inside
\* the queue.Empty handler) and at line 223 only the outer "except sqlite3.Error"
\* (line 227) is left: the thread ends without close(), or dies of the uncaught
\* exception.
BatchRaise(c, exc) ==
    /\ kpc' = [kpc EXCEPT ![c] = IF ctx[c] = "loop" THEN "get" ELSE "done"]
    /\ kexit' = [kexit EXCEPT ![c] = IF ctx[c] = "loop" THEN @
                                     ELSE IF exc = "dberr" THEN "sqlite_error"
                                     ELSE "uncaught"]
    /\ retry' = [retry EXCEPT ![c] = 0]
    /\ ctx' = [ctx EXCEPT ![c] = "none"]
    /\ idx' = [idx EXCEPT ![c] = 0]
    /\ lockedOnly' = [lockedOnly EXCEPT ![c] = TRUE]
    /\ UNCHANGED <<kconn, batch>>

\* conn.commit() after the rows recs were written: the rows of the open
\* transaction and recs reach the database file
Commit(c, recs) ==
    /\ store' = ExecuteMany(store, txn[c] \o recs)
    /\ written' = written \cup EventIdsOf(txn[c] \o recs)
    /\ lastUpsert' = Upserted(txn[c] \o recs)
    /\ txn' = [txn EXCEPT ![c] = <<>>]

\* The loop variable wrapping around before it reaches the bound
WrappedRetry(r) == (r + 1) % 2

\* line 242: for retry in range(max_retries): the next value of retry
NextRetry(r) == r + 1

\* lines 242-260: one iteration of "for retry in range(max_retries)"
BatchAttempt(c) ==
    /\ kpc[c] = "insert"
    /\ \E o \in Answers(c) :
         LET eff == Effect(o, batch[c]) IN
         CASE eff = "ok" ->
                \* lines 244-250: executemany, commit, return
                /\ Commit(c, batch[c])
                /\ BatchReturn(c)
                /\ UNCHANGED fellBack
           [] eff \in {"locked", "operr"} /\ retry[c] < max_retries - 1 ->
                \* lines 252-257: sleep and retry when locked; otherwise only the
                \* message is printed and the for loop takes its next iteration
                /\ retry' = [retry EXCEPT ![c] = NextRetry(@)]
                /\ lockedOnly' = [lockedOnly EXCEPT ![c] = @ /\ eff = "locked"]
                /\ UNCHANGED <<store, written, lastUpsert, kpc, kconn, batch, ctx, idx,
                               kexit, txn, fellBack>>
           [] eff \in {"locked", "operr"} /\ retry[c] >= max_retries - 1 ->
                \* lines 256-260: self._insert_individually(conn, cursor, batch)
                /\ kpc' = [kpc EXCEPT ![c] = "individual"]
                /\ idx' = [idx EXCEPT ![c] = 1]
                /\ fellBack' = IF lockedOnly[c] /\ eff = "locked"
                               THEN fellBack \cup EventIdsOf(batch[c])
                               ELSE fellBack
                /\ lockedOnly' = [lockedOnly EXCEPT ![c] = TRUE]
                /\ UNCHANGED <<store, written, lastUpsert, kconn, batch, retry, ctx,
                               kexit, txn>>
           [] eff = "dberr" ->
                \* an sqlite3.Error that is no OperationalError leaves the function
                /\ BatchRaise(c, eff)
                /\ UNCHANGED <<store, written, lastUpsert, txn, fellBack>>
           [] eff = "pyerr" ->
                \* the records before the unbindable one stay written in the open
                \* transaction; UnicodeEncodeError leaves the function
                /\ txn' = [txn EXCEPT ![c] =
                             IF FirstBad(batch[c]) > 1
                             THEN @ \o SubSeq(batch[c], 1, FirstBad(batch[c]) - 1)
                             ELSE @]
                /\ BatchRaise(c, eff)
                /\ UNCHANGED <<store, written, lastUpsert, fellBack>>
    /\ UNCHANGED <<file_queue, index_thread, cpc, scanVars, stopVars, envVars, guiVars,
                   putIds, deqCount, handed, sawNone, indiv, stopHist>>

\* lines 271-281: one iteration of "for record in batch" of
\* _insert_individually; "except sqlite3.Error: pass" swallows every database
\* error, a UnicodeEncodeError leaves the function.
InsertOne(c) ==
    /\ kpc[c] = "individual"
    /\ indiv' = indiv \cup {Id(batch[c][idx[c]])}
    /\ LET rec == batch[c][idx[c]]
           last == idx[c] = Len(batch[c])
       IN \E o \in Answers(c) :
            LET eff == Effect(o, <<rec>>) IN
            /\ IF eff = "ok"
               THEN Commit(c, <<rec>>)
               ELSE UNCHANGED <<store, written, lastUpsert, txn>>
            /\ IF eff = "pyerr"
               THEN BatchRaise(c, eff)
               ELSE IF last
                    THEN BatchReturn(c)
                    ELSE /\ idx' = [idx EXCEPT ![c] = @ + 1]
                         /\ UNCHANGED <<kpc, kconn, batch, retry, ctx, kexit, lockedOnly>>
    /\ UNCHANGED <<file_queue, index_thread, cpc, scanVars, stopVars, envVars, guiVars,
                   putIds, deqCount, handed, sawNone, fellBack, stopHist>>

(***************************************************************************)
(* FileSystemIndexer.stop                                                  *)
(***************************************************************************)
LiveBatches == UNION {EventIdsOf(batch[c]) : c \in {x \in Callers : is_alive(x)}}

\* stop() without the is_alive() test of line 303: it always drains.
StopBeginAlways ==
    /\ spc = "idle"
    /\ sawAlive' = is_alive(index_thread)
    /\ spc' = "drain"
    /\ batchAtStop' = LiveBatches
    /\ queueAtStop' = EventIdsOf(file_queue)
    /\ UNCHANGED <<file_queue, store, index_thread, cpc, scanVars, consVars, db_lock,
                   mainConn, envVars, guiVars, putIds, consHist, discarded, stopLog>>

\* lines 298-303: running = False (read by nothing); the watcher thread has
\* ended; is the consumer thread alive?
StopBegin ==
    /\ spc = "idle"
    /\ sawAlive' = is_alive(index_thread)
    /\ spc' = IF is_alive(index_thread) THEN "drain" ELSE "lock"
    /\ batchAtStop' = LiveBatches
    /\ queueAtStop' = EventIdsOf(file_queue)
    /\ UNCHANGED <<file_queue, store, index_thread, cpc, scanVars, consVars, db_lock,
                   mainConn, envVars, guiVars, putIds, consHist, discarded, stopLog>>

\* lines 305-310: while not empty(): get_nowait(); task_done(). One iteration,
\* or the end of the loop (the queue is empty, or get_nowait raised queue.Empty
\* because the consumer took the item first: "except Exception: pass").
StopDrain ==
    /\ spc = "drain"
    /\ IF file_queue # <<>>
       THEN /\ file_queue' = Tail(file_queue)
            /\ discarded' = discarded \cup EventIdsOf(<<Head(file_queue)>>)
            /\ UNCHANGED <<spc, stopLog>>
       ELSE /\ spc' = "put"
            /\ stopLog' = Append(stopLog, "drain")
            /\ UNCHANGED <<file_queue, discarded>>
    /\ UNCHANGED <<store, index_thread, cpc, scanVars, consVars, sawAlive, db_lock,
                   mainConn, envVars, guiVars, putIds, consHist, batchAtStop, queueAtStop>>

\* line 313: self.file_queue.put(None)
StopPut ==
    /\ spc = "put"
    /\ file_queue' = Append(file_queue, Sentinel(0, "stop"))
    /\ spc' = "join"
    /\ stopLog' = Append(stopLog, "sentinel")
    /\ UNCHANGED <<store, index_thread, cpc, scanVars, consVars, sawAlive, db_lock,
                   mainConn, envVars, guiVars, putIds, consHist, discarded, batchAtStop,
                   queueAtStop>>

\* line 314: self.index_thread.join(timeout=5.0) returns: the thread has ended,
\* or the 5 s have passed
StopJoin ==
    /\ spc = "join"
    /\ spc' = "lock"
    /\ stopLog' = Append(stopLog, "join")
    /\ UNCHANGED <<file_queue, store, index_thread, cpc, scanVars, consVars, sawAlive,
                   db_lock, mainConn, envVars, guiVars, putIds, consHist, discarded,
                   batchAtStop, queueAtStop>>

\* line 317: with self.db_lock
StopLock ==
    /\ spc = "lock"
    /\ db_lock = "free"
    /\ db_lock' = "stop"
    /\ spc' = "close"
    /\ UNCHANGED <<file_queue, store, index_thread, cpc, scanVars, consVars, sawAlive,
                   mainConn, envVars, guiVars, hvars>>

\* lines 318-323: commit and close self.conn (an sqlite3.Error is swallowed),
\* the lock is released, stop() returns
StopClose ==
    /\ spc = "close"
    /\ mainConn' = "closed"
    /\ db_lock' = "free"
    /\ spc' = "done"
    /\ stopLog' = Append(stopLog, "close")
    /\ UNCHANGED <<file_queue, store, index_thread, cpc, scanVars, consVars, sawAlive,
                   envVars, guiVars, putIds, consHist, discarded, batchAtStop, queueAtStop>>

(***************************************************************************)
(* Spec: the application, as long as nobody calls stop(). The calls of     *)
(* start_indexing come from MainWindow.start_indexing, one IndexingThread  *)
(* at a time.                                                              *)
(***************************************************************************)
Worker == \E c \in Callers, d \in Drives : scan_put(c, d)

Consumer ==
    \/ \E c \in Callers : ConsumerGet(c)
    \/ \E c \in Callers : ConsumerTimeout(c)
    \/ \E c \in Callers : BatchAttempt(c)
    \/ \E c \in Callers : InsertOne(c)

StartIndexing ==
    \/ \E c \in Callers : SI_Start(c)
    \/ \E c \in Callers : SI_Join(c)
    \/ \E c \in Callers : SI_PutSentinel(c)

Stop ==
    \/ StopBegin
    \/ StopDrain
    \/ StopPut
    \/ StopJoin
    \/ StopLock
    \/ StopClose

Next ==
    \/ \E c \in Callers : MainWindow_start_indexing(c)
    \/ StartIndexing
    \/ Worker
    \/ Consumer

Spec == Init /\ [][Next]_vars

(***************************************************************************)
(* SpecStop: one scan pass of the application, and a thread that calls     *)
(* stop() at any moment. Every file name is encodable; the database is     *)
(* either writable or locked by another process.                           *)
(***************************************************************************)
InitStop ==
    /\ InitIndexer
    /\ InitGui
    /\ InitAux
    /\ nameBad = FALSE
    /\ dbAnswers = {"ok", "locked"}

NextStop ==
    \/ MainWindow_start_indexing(1)
    \/ StartIndexing
    \/ Worker
    \/ Consumer
    \/ Stop

SpecStop == InitStop /\ [][NextStop]_vars

(***************************************************************************)
(* SpecRace: two threads call FileSystemIndexer.start_indexing directly,   *)
(* at any moment; the database answers every write with success.          *)
(***************************************************************************)
InitRace ==
    /\ InitIndexer
    /\ InitGui
    /\ InitAux
    /\ nameBad = FALSE
    /\ dbAnswers = {"ok"}

NextRace ==
    \/ \E c \in Callers : SI_Check(c)
    \/ StartIndexing
    \/ Worker
    \/ \E c \in Callers : ConsumerGet(c)
    \/ \E c \in Callers : ConsumerTimeout(c)
    \/ \E c \in Callers : BatchAttempt(c)

SpecRace == InitRace /\ [][NextRace]_vars

(***************************************************************************)
(* The search window: SearchThread.run / stop and                          *)
(* SpotlightWindow.perform_search / stop_current_search / display_results  *)
(* (main_window.py). A signal emitted by run() is delivered to the window  *)
(* through the UI thread's event queue (queued connection).                *)
(***************************************************************************)
(***************************************************************************)
(* SpecOpen: opening the database. FileSystemIndexer.setup_database,       *)
(* the consumer's connection, SearchEngine._get_connection, and what an    *)
(* upsert and a query do on the database each of them is connected to.     *)
(***************************************************************************)
\* indexer.py:44-82 setup_database: connect to db_path and create the table;
\* on sqlite3.Error, self.conn = sqlite3.connect(":memory:") and nothing else.
setup_database ==
    /\ conn = "none"
    /\ \E ok \in BOOLEAN :
         IF ok THEN /\ conn' = "disk"
                    /\ has_table' = [has_table EXCEPT !["disk"] = TRUE]
               ELSE /\ conn' = "mem_indexer"
                    /\ UNCHANGED has_table
    /\ UNCHANGED <<thread_conn, local_conn, dbrows, opres,
                   pipeVars, hvars, guiVars, walkVars, queryVars, readVars, connVars, batchVars>>

\* indexer.py:174-179 and 227-228: the consumer connects to self.db_path; on
\* sqlite3.Error the thread ends.
WorkerConnect ==
    /\ conn # "none"
    /\ thread_conn = "none"
    /\ \E ok \in BOOLEAN : thread_conn' = IF ok THEN "disk" ELSE "failed"
    /\ UNCHANGED <<conn, local_conn, has_table, dbrows, opres,
                   pipeVars, hvars, guiVars, walkVars, queryVars, readVars, connVars, batchVars>>

\* indexer.py:244-251, 273-278: INSERT OR REPLACE of the record of file k on
\* thread_conn; without the table every attempt fails and the record is lost.
WorkerUpsert(k) ==
    /\ thread_conn \in DBs
    /\ k \notin dbrows[thread_conn]
    /\ opres["upsert"] # "error"
    /\ IF has_table[thread_conn]
       THEN /\ dbrows' = [dbrows EXCEPT ![thread_conn] = @ \cup {k}]
            /\ opres' = [opres EXCEPT !["upsert"] = "ok"]
       ELSE /\ opres' = [opres EXCEPT !["upsert"] = "error"]
            /\ UNCHANGED dbrows
    /\ UNCHANGED <<conn, thread_conn, local_conn, has_table,
                   pipeVars, hvars, guiVars, walkVars, queryVars, readVars, connVars, batchVars>>

\* indexer.py:325-370 FileSystemIndexer.search: SELECT on self.cursor; an
\* sqlite3.Error (no such table) is caught and [] returned.
Indexer_search ==
    /\ conn # "none"
    /\ opres["indexer_search"] = "none"
    /\ opres' = [opres EXCEPT !["indexer_search"] = IF has_table[conn] THEN "ok" ELSE "error"]
    /\ UNCHANGED <<conn, thread_conn, local_conn, has_table, dbrows,
                   pipeVars, hvars, guiVars, walkVars, queryVars, readVars, connVars, batchVars>>

\* search_engine.py:32-57 _get_connection: connect to db_path; on sqlite3.Error
\* self.local.conn = sqlite3.connect(":memory:") and nothing else.
get_connection ==
    /\ local_conn = "none"
    /\ \E ok \in BOOLEAN : local_conn' = IF ok THEN "disk" ELSE "mem_engine"
    /\ UNCHANGED <<conn, thread_conn, has_table, dbrows, opres,
                   pipeVars, hvars, guiVars, walkVars, queryVars, readVars, connVars, batchVars>>

\* search_engine.py:92-156: the SELECT of a search on self.local.cursor
Engine_search ==
    /\ local_conn # "none"
    /\ opres["engine_search"] = "none"
    /\ opres' = [opres EXCEPT !["engine_search"] =
                   IF has_table[local_conn] THEN "ok" ELSE "error"]
    /\ UNCHANGED <<conn, thread_conn, local_conn, has_table, dbrows,
                   pipeVars, hvars, guiVars, walkVars, queryVars, readVars, connVars, batchVars>>

\* FileSystemIndexer.__init__ at line 42, before setup_database: the file
\* db_path may hold the table from an earlier run.
InitOpen ==
    /\ InitIndexer
    /\ InitGui
    /\ nameBad = FALSE
    /\ dbAnswers = {"ok"}
    /\ conn = "none"
    /\ thread_conn = "none"
    /\ local_conn = "none"
    /\ \E t \in BOOLEAN : has_table = [d \in DBs |-> t /\ d = "disk"]
    /\ dbrows = [d \in DBs |-> {}]
    /\ opres = [o \in Ops |-> "none"]
    /\ InitWalkIdle
    /\ InitQueryIdle
    /\ InitReadIdle
    /\ InitHandles
    /\ InitBatchIdle

NextOpen ==
    \/ setup_database
    \/ WorkerConnect
    \/ \E k \in {"a", "b"} : WorkerUpsert(k)
    \/ Indexer_search
    \/ get_connection
    \/ Engine_search

SpecOpen == InitOpen /\ [][NextOpen]_vars

(***************************************************************************)
(* SpecWalk: scan_directory on a directory tree in which any directory may *)
(* be unreadable and any file may fail os.stat.                            *)
(***************************************************************************)
\* The tree under the scanned root "r": the sub-directories and the files of
\* each directory, in the order os.scandir lists them.
TreeDirs == {"r", "d1", "d2", "d3"}
TreeFiles == {"f1", "f2", "f3", "f4", "f5"}
SubdirsOf == [d \in TreeDirs |-> IF d = "r" THEN <<"d1", "d2">>
                                 ELSE IF d = "d1" THEN <<"d3">> ELSE <<>>]
FilesOf == [d \in TreeDirs |-> IF d = "r" THEN <<"f1", "f2">>
                               ELSE IF d = "d1" THEN <<"f3">>
                               ELSE IF d = "d2" THEN <<"f5">> ELSE <<"f4">>]

\* os.stat raising out of the loops: the walk is abandoned
AbortOnStatError(w) == [files |-> <<>>, stack |-> <<>>]

\* lines 164-166: except (PermissionError, FileNotFoundError, OSError):
\* continue. The loop goes on with the rest of the directory's files.
OnStatError(w) == w

\* line 146, os.walk(directory) without onerror: a directory os.scandir fails
\* on is skipped with everything below it; a listed directory yields its
\* files and its sub-directories are walked next, before its siblings.
walk_next ==
    /\ wpc = "walk"
    /\ wfiles = <<>>
    /\ wstack # <<>>
    /\ IF Head(wstack) \in unreadable
       THEN /\ wstack' = Tail(wstack)
            /\ UNCHANGED wfiles
       ELSE /\ wfiles' = FilesOf[Head(wstack)]
            /\ wstack' = SubdirsOf[Head(wstack)] \o Tail(wstack)
    /\ UNCHANGED <<unreadable, unstatable, wpc, wqueue, pipeVars, hvars, guiVars, openVars, queryVars, readVars, connVars, batchVars>>

\* lines 148-166: the next file of the yielded directory: os.stat, then
\* file_queue.put of its record, or the except branch
scan_file ==
    /\ wpc = "walk"
    /\ wfiles # <<>>
    /\ IF Head(wfiles) \in unstatable
       THEN LET w == OnStatError([files |-> Tail(wfiles), stack |-> wstack])
            IN  /\ wfiles' = w.files
                /\ wstack' = w.stack
                /\ UNCHANGED wqueue
       ELSE /\ wqueue' = Append(wqueue, Head(wfiles))
            /\ wfiles' = Tail(wfiles)
            /\ UNCHANGED wstack
    /\ UNCHANGED <<unreadable, unstatable, wpc, pipeVars, hvars, guiVars, openVars, queryVars, readVars, connVars, batchVars>>

\* os.walk is exhausted: scan_directory returns
walk_end ==
    /\ wpc = "walk"
    /\ wfiles = <<>>
    /\ wstack = <<>>
    /\ wpc' = "done"
    /\ UNCHANGED <<unreadable, unstatable, wstack, wfiles, wqueue, pipeVars, hvars, guiVars,
                   openVars, queryVars, readVars, connVars, batchVars>>

\* scan_directory("r") is called; the file system has any set of unreadable
\* directories and of files os.stat fails on.
InitWalk ==
    /\ InitIndexer
    /\ InitGui
    /\ InitOpened
    /\ nameBad = FALSE
    /\ dbAnswers = {"ok"}
    /\ unreadable \in SUBSET TreeDirs
    /\ unstatable \in SUBSET TreeFiles
    /\ wpc = "walk"
    /\ wstack = <<"r">>
    /\ wfiles = <<>>
    /\ wqueue = <<>>
    /\ InitQueryIdle
    /\ InitReadIdle
    /\ InitHandles
    /\ InitBatchIdle

NextWalk ==
    \/ walk_next
    \/ scan_file
    \/ walk_end

SpecWalk == InitWalk /\ [][NextWalk]_vars

(***************************************************************************)
(* Strings are sequences of tokens: a token is one character ("a", "_",    *)
(* "*", " ", "(" ...) or a word the code looks for as a whole ("AND",      *)
(* "OR", "NOT", "regex:").                                                 *)
(***************************************************************************)
\* str.strip(): leading and trailing blanks removed
RECURSIVE lstrip(_)
lstrip(s) == IF s # <<>> /\ Head(s) = " " THEN lstrip(Tail(s)) ELSE s
RECURSIVE rstrip(_)
rstrip(s) == IF s # <<>> /\ s[Len(s)] = " " THEN rstrip(SubSeq(s, 1, Len(s) - 1)) ELSE s
strip(s) == rstrip(lstrip(s))

\* The number of tokens of s equal to ch.
RECURSIVE Count(_, _)
Count(s, ch) == IF s = <<>> THEN 0
                ELSE (IF Head(s) = ch THEN 1 ELSE 0) + Count(Tail(s), ch)

\* search_engine.py:124, 180, 376: max_retries = 3
search_max_retries == 3

\* What the database answers to one execute of a SELECT: rows, "database is
\* locked", or another sqlite3 error (no such table, disk I/O error ...).
SearchAnswers == {"ok", "locked", "operr"}

\* search_engine.py:127-140, 183-196, 376-389: the retry loop around
\* cursor.execute. answers[i] is the database's answer to attempt i. A locked
\* answer is retried while attempts are left; any other error, and the last
\* locked answer, is re-raised.
RECURSIVE ExecuteWithRetry(_, _)
ExecuteWithRetry(answers, retry_count) ==
    IF answers[retry_count + 1] = "ok" THEN "ok"
    ELSE IF answers[retry_count + 1] = "locked" /\ retry_count < search_max_retries - 1
         THEN ExecuteWithRetry(answers, retry_count + 1)
         ELSE answers[retry_count + 1]

\* re.compile(regex_pattern): raises re.error on a malformed pattern, here a
\* pattern whose parentheses do not balance.
ReCompileRaises(regex_pattern) == Count(regex_pattern, "(") # Count(regex_pattern, ")")

\* search_engine.py:344-411 search_by_regex: the SELECT with its retry loop,
\* then re.compile at line 392, outside every try block. A database error and
\* a pattern error both leave the method as exceptions.
search_by_regex(regex_pattern, answers) ==
    LET e == ExecuteWithRetry(answers, 0)
    IN  IF e # "ok" THEN [raised |-> TRUE, why |-> "store"]
        ELSE IF ReCompileRaises(regex_pattern) THEN [raised |-> TRUE, why |-> "pattern"]
        ELSE [raised |-> FALSE, why |-> "ok"]

\* search_engine.py:69-90 search: _simple_search or _complex_search re-raise a
\* database error, and search catches it at lines 88-90 and returns [].
search(text, answers) ==
    LET e == ExecuteWithRetry(answers, 0)
    IN  IF e # "ok" THEN [raised |-> FALSE, why |-> "store"]
        ELSE [raised |-> FALSE, why |-> "ok"]

\* search_engine.py:84: any(op in query for op in ['AND', 'OR', 'NOT']) or
\* '*' in query or '?' in query
HasOperator(text) == \E op \in {"AND", "OR", "NOT", "*", "?"} : Count(text, op) > 0

\* The parser's test made before the prefix test.
EngineCallOperatorsFirst(text, answers) ==
    IF text # <<>> /\ Head(text) = "regex:" /\ ~HasOperator(text)
    THEN LET r == search_by_regex(strip(Tail(text)), answers)
         IN  [raised |-> r.raised, why |-> r.why, path |-> "regex",
              pattern |-> strip(Tail(text))]
    ELSE LET r == search(text, answers)
         IN  [raised |-> r.raised, why |-> r.why,
              path |-> IF HasOperator(text) THEN "complex" ELSE "simple", pattern |-> <<>>]

\* main_window.py:80-101: SearchThread.run hands a query that starts with
\* "regex:" to search_by_regex (prefix cut off, stripped), any other to search,
\* which takes it to _complex_search or _simple_search (search_engine.py:84-87).
\* path and pattern say which method ran and with which regex pattern.
EngineCall(text, answers) ==
    IF text # <<>> /\ Head(text) = "regex:"
    THEN LET r == search_by_regex(strip(Tail(text)), answers)
         IN  [raised |-> r.raised, why |-> r.why, path |-> "regex",
              pattern |-> strip(Tail(text))]
    ELSE LET r == search(text, answers)
         IN  [raised |-> r.raised, why |-> r.why,
              path |-> IF HasOperator(text) THEN "complex" ELSE "simple", pattern |-> <<>>]

\* QThread.isRunning(): started, and run() has not returned
isRunning(t) == tpc[t] \notin {"new", "finished", "killed"}

\* The SearchThread perform_search creates next.
NextSearch == CHOOSE t \in Searches : tpc[t] = "new" /\ \A u \in Searches : u < t => tpc[u] # "new"

\* signal.emit(...) from run(): one queued call per connected slot
Emit(t, sig) == IF connected[t] THEN Append(eventq, [sig |-> sig, from |-> t]) ELSE eventq

\* main_window.py:76-77: if self.stop_requested: return
ST_Check1(t) ==
    /\ tpc[t] = "check1"
    /\ tpc' = [tpc EXCEPT ![t] = IF stop_requested[t] THEN "finished" ELSE "search"]
    /\ UNCHANGED <<search_thread, stop_requested, connected, eventq, upc, emitted, stale,
                   displayed, ivars, hvars, query, st_query, sres, errors>>

\* lines 80-101: the query goes to the engine by its prefix; the call returns
\* its results, or raises
ST_Search(t) ==
    /\ tpc[t] = "search"
    /\ \E answers \in [1..search_max_retries -> SearchAnswers] :
         LET r == EngineCall(st_query[t], answers)
         IN  /\ sres' = [sres EXCEPT ![t] = [why |-> r.why, path |-> r.path, pattern |-> r.pattern]]
             /\ tpc' = [tpc EXCEPT ![t] = IF r.raised THEN "xcheck" ELSE "check2"]
    /\ UNCHANGED <<search_thread, stop_requested, connected, eventq, upc, emitted, stale,
                   displayed, ivars, hvars, query, st_query, errors>>

\* line 104: if not self.stop_requested
ST_Check2(t) ==
    /\ tpc[t] = "check2"
    /\ tpc' = [tpc EXCEPT ![t] = IF stop_requested[t] THEN "finished" ELSE "emit"]
    /\ UNCHANGED <<search_thread, stop_requested, connected, eventq, upc, emitted, stale,
                   displayed, ivars, hvars, query, st_query, sres, errors>>

\* line 105: self.results_ready.emit(results); run() returns
ST_Emit(t) ==
    /\ tpc[t] = "emit"
    /\ eventq' = Emit(t, "results_ready")
    /\ emitted' = emitted \cup {t}
    /\ tpc' = [tpc EXCEPT ![t] = "finished"]
    /\ UNCHANGED <<search_thread, stop_requested, connected, upc, stale, displayed,
                   ivars, hvars, query, st_query, sres, errors>>

\* lines 106-108: except Exception: if not self.stop_requested
ST_ExceptCheck(t) ==
    /\ tpc[t] = "xcheck"
    /\ tpc' = [tpc EXCEPT ![t] = IF stop_requested[t] THEN "finished" ELSE "xemit"]
    /\ UNCHANGED <<search_thread, stop_requested, connected, eventq, upc, emitted, stale,
                   displayed, ivars, hvars, query, st_query, sres, errors>>

\* line 110: self.error_occurred.emit(error_msg)
ST_EmitError(t) ==
    /\ tpc[t] = "xemit"
    /\ eventq' = Emit(t, "error_occurred")
    /\ errors' = errors \cup {t}
    /\ tpc' = [tpc EXCEPT ![t] = "xemit2"]
    /\ UNCHANGED <<search_thread, stop_requested, connected, upc, emitted, stale,
                   displayed, ivars, hvars, query, st_query, sres>>

\* lines 112-115: self.results_ready.emit([]); run() returns
ST_EmitEmpty(t) ==
    /\ tpc[t] = "xemit2"
    /\ eventq' = Emit(t, "results_ready")
    /\ emitted' = emitted \cup {t}
    /\ tpc' = [tpc EXCEPT ![t] = "finished"]
    /\ UNCHANGED <<search_thread, stop_requested, connected, upc, stale, displayed,
                   ivars, hvars, query, st_query, sres, errors>>

\* lines 404-411: the search timer fires, perform_search reads the query; an
\* empty query clears the list and returns. With a query, every SearchThread
\* that has not emitted yet is superseded from here on.
perform_search(text) ==
    /\ upc = "loop"
    /\ \E t \in Searches : tpc[t] = "new"
    /\ query' = (IF text = <<>> THEN query ELSE text)
    /\ IF text = <<>>
       THEN /\ displayed' = IF displayed # <<>> /\ displayed[Len(displayed)] # 0
                            THEN Append(displayed, 0)
                            ELSE displayed
            /\ UNCHANGED <<upc, stale>>
       ELSE /\ upc' = "test"
            /\ stale' = stale \cup {t \in Searches : tpc[t] # "new" /\ t \notin emitted}
            /\ UNCHANGED displayed
    /\ UNCHANGED <<search_thread, tpc, stop_requested, connected, eventq, emitted,
                   ivars, hvars, st_query, sres, errors>>

\* line 395: if self.search_thread and self.search_thread.isRunning()
SCS_Test ==
    /\ upc = "test"
    /\ upc' = IF search_thread # 0 /\ isRunning(search_thread) THEN "stop" ELSE "create"
    /\ UNCHANGED <<search_thread, tpc, stop_requested, connected, eventq, emitted, stale,
                   displayed, ivars, hvars, query, st_query, sres, errors>>

\* lines 396-397 and 117-119: self.search_thread.stop()
SCS_Stop ==
    /\ upc = "stop"
    /\ stop_requested' = [stop_requested EXCEPT ![search_thread] = TRUE]
    /\ upc' = "disconnect"
    /\ UNCHANGED <<search_thread, tpc, connected, eventq, emitted, stale, displayed,
                   ivars, hvars, query, st_query, sres, errors>>

\* line 399: self.search_thread.disconnect(); the slot proxies of the thread's
\* connections are disabled, so its calls still queued are ignored
SCS_Disconnect ==
    /\ upc = "disconnect"
    /\ connected' = [connected EXCEPT ![search_thread] = FALSE]
    /\ eventq' = SelectSeq(eventq, LAMBDA e : e.from # search_thread)
    /\ upc' = "terminate"
    /\ UNCHANGED <<search_thread, tpc, stop_requested, emitted, stale, displayed,
                   ivars, hvars, query, st_query, sres, errors>>

\* line 400: self.search_thread.terminate(): the thread is killed where it
\* stands, or goes on running (termination is up to the operating system)
SCS_Terminate ==
    /\ upc = "terminate"
    /\ \E kills \in BOOLEAN :
         tpc' = [tpc EXCEPT ![search_thread] =
                   IF kills /\ isRunning(search_thread) THEN "killed" ELSE @]
    /\ upc' = "wait"
    /\ UNCHANGED <<search_thread, stop_requested, connected, eventq, emitted, stale,
                   displayed, ivars, hvars, query, st_query, sres, errors>>

\* lines 401-402: self.search_thread.wait(500) returns (the thread has ended,
\* or the 500 ms have passed); self.search_thread = None
SCS_Wait ==
    /\ upc = "wait"
    /\ search_thread' = 0
    /\ upc' = "create"
    /\ UNCHANGED <<tpc, stop_requested, connected, eventq, emitted, stale, displayed,
                   ivars, hvars, query, st_query, sres, errors>>

\* lines 417-420: a new SearchThread is created with the query, its signals are
\* connected to display_results and show_error, and it is started;
\* perform_search returns
PS_StartThread ==
    /\ upc = "create"
    /\ search_thread' = NextSearch
    /\ st_query' = [st_query EXCEPT ![NextSearch] = query]
    /\ connected' = [connected EXCEPT ![NextSearch] = TRUE]
    /\ tpc' = [tpc EXCEPT ![NextSearch] = "check1"]
    /\ upc' = "loop"
    /\ query' = <<>>
    /\ UNCHANGED <<stop_requested, eventq, emitted, stale, displayed, ivars, hvars,
                   sres, errors>>

\* The UI event loop delivers the next queued call: display_results
\* (lines 422-447) or show_error (lines 463-466).
DeliverEvent ==
    /\ upc = "loop"
    /\ eventq # <<>>
    /\ eventq' = Tail(eventq)
    /\ displayed' = IF Head(eventq).sig = "results_ready"
                    THEN Append(displayed, Head(eventq).from)
                    ELSE displayed
    /\ UNCHANGED <<search_thread, tpc, stop_requested, connected, upc, emitted, stale,
                   ivars, hvars, query, st_query, sres, errors>>

\* What the user types in the search field: nothing, a plain word, a regex:
\* query with a well-formed pattern, one with a malformed pattern.
Queries == {<<>>, <<"a">>, <<"regex:", "a">>, <<"regex:", "(", "a">>}

SearchThreadRun ==
    \/ \E t \in Searches : ST_Check1(t)
    \/ \E t \in Searches : ST_Search(t)
    \/ \E t \in Searches : ST_Check2(t)
    \/ \E t \in Searches : ST_Emit(t)
    \/ \E t \in Searches : ST_ExceptCheck(t)
    \/ \E t \in Searches : ST_EmitError(t)
    \/ \E t \in Searches : ST_EmitEmpty(t)

stop_current_search ==
    \/ SCS_Test
    \/ SCS_Stop
    \/ SCS_Disconnect
    \/ SCS_Terminate
    \/ SCS_Wait

(***************************************************************************)
(* SpecSearch: the search window alone; the indexer is idle.               *)
(***************************************************************************)
InitSearch ==
    /\ InitIndexer
    /\ InitGui
    /\ InitAux
    /\ nameBad = FALSE
    /\ dbAnswers = {"ok"}

NextSearchWindow ==
    \/ \E q \in Queries : perform_search(q)
    \/ stop_current_search
    \/ PS_StartThread
    \/ SearchThreadRun
    \/ DeliverEvent

SpecSearch == InitSearch /\ [][NextSearchWindow]_vars

(***************************************************************************)
(* SpecQuery: SearchEngine.search as a function of the query, the type     *)
(* filter and the table: routing, _parse_query, _build_where_clause,       *)
(* _build_sql_from_parsed_query and what the SELECT returns.               *)
(***************************************************************************)
\* The operators as the parser looks for them.
AND_ == <<" ", "AND", " ">>
OR_ == <<" ", "OR", " ">>
NOT_ == <<"NOT", " ">>

\* sub in s, and the position of the first occurrence (0: none)
IndexOf(s, sub) ==
    LET at == {i \in 1..(Len(s) - Len(sub) + 1) : SubSeq(s, i, i + Len(sub) - 1) = sub}
    IN  IF at = {} THEN 0 ELSE CHOOSE i \in at : \A j \in at : i <= j
Contains(s, sub) == IndexOf(s, sub) # 0

\* s.startswith(prefix)
startswith(s, prefix) == Len(s) >= Len(prefix) /\ SubSeq(s, 1, Len(prefix)) = prefix

\* s.split(sep): cut at every occurrence of sep, leftmost first
RECURSIVE split(_, _)
split(s, sep) ==
    IF ~Contains(s, sep) THEN <<s>>
    ELSE <<SubSeq(s, 1, IndexOf(s, sep) - 1)>>
           \o split(SubSeq(s, IndexOf(s, sep) + Len(sep), Len(s)), sep)

\* s.replace(old, new) for single characters
replace(s, old, new) == [i \in 1..Len(s) |-> IF s[i] = old THEN new ELSE s[i]]

\* '*' in query or '?' in query
HasWildcard(s) == Contains(s, <<"*">>) \/ Contains(s, <<"?">>)

Simple(value) == [type |-> "simple", value |-> value]

\* _parse_query with the tests for ' OR ' and ' AND ' exchanged
parse_query_or_first(text) ==
    IF Contains(text, OR_)
    THEN [type |-> "or",
          operands |-> [i \in 1..Len(split(text, OR_)) |-> Simple(strip(split(text, OR_)[i]))]]
    ELSE IF Contains(text, AND_)
    THEN [type |-> "and",
          operands |-> [i \in 1..Len(split(text, AND_)) |-> Simple(strip(split(text, AND_)[i]))]]
    ELSE IF startswith(text, NOT_)
    THEN [type |-> "not", operand |-> Simple(strip(SubSeq(text, 3, Len(text))))]
    ELSE IF HasWildcard(text) THEN Simple(replace(replace(text, "*", "%"), "?", "_"))
    ELSE Simple(text)

\* search_engine.py:214-262 _parse_query: ' AND ' anywhere, else ' OR '
\* anywhere, else a leading 'NOT ', else a simple term; '*' and '?' become '%'
\* and '_' when the parsed query is a simple term (lines 255-260).
parse_query(text) ==
    IF Contains(text, AND_)
    THEN [type |-> "and",
          operands |-> [i \in 1..Len(split(text, AND_)) |-> Simple(strip(split(text, AND_)[i]))]]
    ELSE IF Contains(text, OR_)
    THEN [type |-> "or",
          operands |-> [i \in 1..Len(split(text, OR_)) |-> Simple(strip(split(text, OR_)[i]))]]
    ELSE IF startswith(text, NOT_)
    THEN [type |-> "not", operand |-> Simple(strip(SubSeq(text, 3, Len(text))))]
    ELSE IF HasWildcard(text) THEN Simple(replace(replace(text, "*", "%"), "?", "_"))
    ELSE Simple(text)

\* f"%{value}%"
Wrap(value) == <<"%">> \o value \o <<"%">>

\* search_engine.py:295-342 _build_where_clause: the predicate of a parsed
\* query. A simple term that holds '%' or '_' is the LIKE pattern as it is,
\* any other is wrapped in '%'.
RECURSIVE build_where_clause(_)
build_where_clause(parsed) ==
    IF parsed.type = "simple"
    THEN [kind |-> "like",
          pattern |-> IF Contains(parsed.value, <<"%">>) \/ Contains(parsed.value, <<"_">>)
                      THEN parsed.value
                      ELSE Wrap(parsed.value)]
    ELSE IF parsed.type \in {"and", "or"}
    THEN [kind |-> parsed.type,
          clauses |-> [i \in 1..Len(parsed.operands) |->
                         build_where_clause(parsed.operands[i])]]
    ELSE IF parsed.type = "not"
    THEN [kind |-> "not", clause |-> build_where_clause(parsed.operand)]
    ELSE [kind |-> "none"]

\* search_engine.py:264-293 _build_sql_from_parsed_query
\* The text of a WHERE clause: a sequence of tokens. "like" stands for
\* "filename LIKE ?" together with the parameter bound to its '?', "type" for
\* "file_type = ?" with its parameter.
Tok(t, p) == [t |-> t, p |-> p]

\* sep.join(texts)
RECURSIVE join(_, _)
join(texts, sep) ==
    IF texts = <<>> THEN <<>>
    ELSE IF Len(texts) = 1 THEN texts[1]
    ELSE texts[1] \o <<sep>> \o join(Tail(texts), sep)

\* _build_where_clause with the clauses of AND / OR joined without the
\* enclosing parentheses
RECURSIVE where_text_bare(_)
where_text_bare(w) ==
    IF w.kind = "like" THEN <<Tok("like", w.pattern)>>
    ELSE IF w.kind \in {"and", "or"}
    THEN join([i \in 1..Len(w.clauses) |-> where_text_bare(w.clauses[i])],
              Tok(IF w.kind = "and" THEN "AND" ELSE "OR", <<>>))
    ELSE IF w.kind = "not"
    THEN <<Tok("NOT", <<>>), Tok("(", <<>>)>> \o where_text_bare(w.clause) \o <<Tok(")", <<>>)>>
    ELSE <<>>

\* search_engine.py:311-340 _build_where_clause, the clause as text:
\* "filename LIKE ?", "(" + " AND ".join(clauses) + ")",
\* "(" + " OR ".join(clauses) + ")", f"NOT ({clause})"
RECURSIVE where_text(_)
where_text(w) ==
    IF w.kind = "like" THEN <<Tok("like", w.pattern)>>
    ELSE IF w.kind \in {"and", "or"}
    THEN <<Tok("(", <<>>)>>
           \o join([i \in 1..Len(w.clauses) |-> where_text(w.clauses[i])],
                   Tok(IF w.kind = "and" THEN "AND" ELSE "OR", <<>>))
           \o <<Tok(")", <<>>)>>
    ELSE IF w.kind = "not"
    THEN <<Tok("NOT", <<>>), Tok("(", <<>>)>> \o where_text(w.clause) \o <<Tok(")", <<>>)>>
    ELSE <<>>

\* lines 115-117 and 287-289: if file_type: sql += " AND file_type = ?"
with_file_type(text, ftype) ==
    IF ftype # "" THEN text \o <<Tok("AND", <<>>), Tok("type", ftype)>> ELSE text

\* search_engine.py:264-293 _build_sql_from_parsed_query
build_sql_from_parsed_query(parsed, ftype, n) ==
    [where |-> build_where_clause(parsed),
     text |-> with_file_type(where_text(build_where_clause(parsed)), ftype),
     file_type |-> ftype, limit |-> n]

\* SQLite's LIKE without ESCAPE: '%' matches any sequence of characters, '_'
\* any one character, every other character itself.
RECURSIVE Like(_, _)
Like(pattern, s) ==
    IF pattern = <<>> THEN s = <<>>
    ELSE IF Head(pattern) = "%"
         THEN Like(Tail(pattern), s) \/ (s # <<>> /\ Like(pattern, Tail(s)))
    ELSE IF Head(pattern) = "_"
         THEN s # <<>> /\ Like(Tail(pattern), Tail(s))
    ELSE s # <<>> /\ Head(s) = Head(pattern) /\ Like(Tail(pattern), Tail(s))

\* The WHERE predicate on a filename.
RECURSIVE Holds(_, _)
Holds(where, filename) ==
    IF where.kind = "like" THEN Like(where.pattern, filename)
    ELSE IF where.kind = "and"
         THEN \A i \in 1..Len(where.clauses) : Holds(where.clauses[i], filename)
    ELSE IF where.kind = "or"
         THEN \E i \in 1..Len(where.clauses) : Holds(where.clauses[i], filename)
    ELSE IF where.kind = "not" THEN ~Holds(where.clause, filename)
    ELSE FALSE

\* Table files: filename and file_type of each row.
Table == <<[filename |-> <<"a", "_", "b">>, file_type |-> ".txt"],
           [filename |-> <<"a", "c", "b">>, file_type |-> ".txt"],
           [filename |-> <<"a", "_", "b", "b">>, file_type |-> ".doc"],
           [filename |-> <<"a", "b">>, file_type |-> ".txt"],
           [filename |-> <<"b">>, file_type |-> ".doc"],
           [filename |-> <<"c">>, file_type |-> ".txt"],
           [filename |-> <<"a">>, file_type |-> ".doc"]>>
Rows == 1..Len(Table)

\* SQLite evaluating the text of a WHERE clause on a row: NOT binds tighter
\* than AND, AND tighter than OR, parentheses group. Each operator returns
\* the value of the expression it read and the text left after it.
RECURSIVE EvalOr(_, _)
RECURSIVE EvalAnd(_, _)
RECURSIVE EvalNot(_, _)
RECURSIVE EvalOrRest(_, _)
RECURSIVE EvalAndRest(_, _)
EvalNot(text, row) ==
    IF Head(text).t = "NOT"
    THEN [v |-> ~EvalNot(Tail(text), row).v, rest |-> EvalNot(Tail(text), row).rest]
    ELSE IF Head(text).t = "("
    THEN [v |-> EvalOr(Tail(text), row).v, rest |-> Tail(EvalOr(Tail(text), row).rest)]
    ELSE IF Head(text).t = "like"
    THEN [v |-> Like(Head(text).p, row.filename), rest |-> Tail(text)]
    ELSE [v |-> row.file_type = Head(text).p, rest |-> Tail(text)]
EvalAndRest(left, row) ==
    IF left.rest # <<>> /\ Head(left.rest).t = "AND"
    THEN EvalAndRest([v |-> left.v /\ EvalNot(Tail(left.rest), row).v,
                      rest |-> EvalNot(Tail(left.rest), row).rest], row)
    ELSE left
EvalAnd(text, row) == EvalAndRest(EvalNot(text, row), row)
EvalOrRest(left, row) ==
    IF left.rest # <<>> /\ Head(left.rest).t = "OR"
    THEN EvalOrRest([v |-> left.v \/ EvalAnd(Tail(left.rest), row).v,
                     rest |-> EvalAnd(Tail(left.rest), row).rest], row)
    ELSE left
EvalOr(text, row) == EvalOrRest(EvalAnd(text, row), row)

\* The rows the SELECT matches: those on which its WHERE clause, with the
\* type filter appended if one is given, is true.
Selected(stmt) == {r \in Rows : EvalOr(stmt.text, Table[r]).v}

\* The terms and the queries SearchEngine.search is called with.
Terms == {<<"a">>, <<"b">>, <<"c">>, <<"a", "_", "b">>, <<"a", "*">>, <<"a", "?", "b">>,
          <<"a", "_", "*">>}
Words == {<<"a">>, <<"b">>, <<"c">>}
QuerySet ==
    Terms
    \cup {t1 \o AND_ \o t2 : t1 \in Terms, t2 \in Terms}
    \cup {t1 \o OR_ \o t2 : t1 \in Terms, t2 \in Terms}
    \cup {NOT_ \o t : t \in Terms}
    \cup {w1 \o s1 \o w2 \o s2 \o w3 : w1 \in {<<"a">>}, w2 \in Words, w3 \in Words,
                                      s1 \in {AND_, OR_}, s2 \in {AND_, OR_}}
    \cup {NOT_ \o w1 \o s1 \o w2 : w1 \in {<<"a">>}, w2 \in Words, s1 \in {AND_, OR_}}
    \cup {<<"a", " ">> \o AND_ \o <<" ", "b">>, <<"OR", "a">>}

\* The arguments of the call, and the state of search_by_regex's loop.
argVars == <<se_query, file_type, limit, limit_passed>>
regexVars == <<cursor_rows, examined, regex_results>>

\* search_engine.py:84-87: a query that holds AND, OR, NOT, '*' or '?' goes to
\* _complex_search, any other to _simple_search.
SE_Route ==
    /\ qpc = "start"
    /\ qpc' = IF \E op \in {"AND", "OR", "NOT", "*", "?"} : Contains(se_query, <<op>>)
              THEN "complex" ELSE "simple"
    /\ UNCHANGED <<argVars, regexVars, parsed_query, sql, results, pipeVars, hvars, guiVars,
                   openVars, walkVars, readVars, connVars, batchVars>>

\* search_engine.py:105-121 _simple_search: WHERE filename LIKE '%query%'
SE_SimpleBuild ==
    /\ qpc = "simple"
    /\ sql' = [where |-> [kind |-> "like", pattern |-> Wrap(se_query)],
               text |-> with_file_type(<<Tok("like", Wrap(se_query))>>, file_type),
               file_type |-> file_type, limit |-> limit]
    /\ qpc' = "built"
    /\ UNCHANGED <<argVars, regexVars, parsed_query, results, pipeVars, hvars, guiVars,
                   openVars, walkVars, readVars, connVars, batchVars>>

\* search_engine.py:174 _complex_search: parsed_query = self._parse_query(query)
SE_Parse ==
    /\ qpc = "complex"
    /\ parsed_query' = parse_query(se_query)
    /\ qpc' = "parsed"
    /\ UNCHANGED <<argVars, regexVars, sql, results, pipeVars, hvars, guiVars, openVars,
                   walkVars, readVars, connVars, batchVars>>

\* search_engine.py:177: sql, params = self._build_sql_from_parsed_query(...)
SE_Build ==
    /\ qpc = "parsed"
    /\ sql' = build_sql_from_parsed_query(parsed_query, file_type, limit)
    /\ qpc' = "built"
    /\ UNCHANGED <<argVars, regexVars, parsed_query, results, pipeVars, hvars, guiVars,
                   openVars, walkVars, readVars, connVars, batchVars>>

\* A SELECT without its LIMIT clause
Unlimited(selected, n) == {selected}

\* f" LIMIT {max_results}" (lines 121, 291) for n >= 0: what the SELECT can
\* return of the rows its WHERE clause selects: all of them, or any n of them
\* when there are more (the statement has no ORDER BY).
Limited(selected, n) ==
    {rs \in SUBSET selected :
       Cardinality(rs) = IF Cardinality(selected) <= n THEN Cardinality(selected) ELSE n}

\* search_engine.py:129, 143-156 and 185, 199-212: the SELECT runs and its rows
\* are returned.
SE_Execute ==
    /\ qpc = "built"
    /\ results' \in Limited(Selected(sql), sql.limit)
    /\ qpc' = "done"
    /\ UNCHANGED <<argVars, regexVars, parsed_query, sql, pipeVars, hvars, guiVars,
                   openVars, walkVars, readVars, connVars, batchVars>>

\* search_engine.py:370: LIMIT {max_results * 10}; the model scales the factor
\* down so that the table holds more rows than the window of a small limit.
overfetch == 2

\* pattern.search(filename) for a pattern of literal characters and '.': the
\* pattern matches somewhere in the filename.
RECURSIVE ReMatchHere(_, _)
ReMatchHere(pattern, s) ==
    IF pattern = <<>> THEN TRUE
    ELSE /\ s # <<>>
         /\ Head(pattern) \in {".", Head(s)}
         /\ ReMatchHere(Tail(pattern), Tail(s))
ReSearch(pattern, s) == \E i \in 1..(Len(s) + 1) : ReMatchHere(pattern, SubSeq(s, i, Len(s)))

\* The rows of the table that pass "WHERE file_type = ?" (lines 365-368), in
\* rowid order, and the first n elements of a sequence.
TypedRows(ftype) ==
    SelectSeq([r \in Rows |-> r], LAMBDA r : ftype = "" \/ Table[r].file_type = ftype)
FirstN(seq, n) == SubSeq(seq, 1, IF Len(seq) <= n THEN Len(seq) ELSE n)

\* A loop without the test of line 406
NeverBreak(count, n) == FALSE

\* search_engine.py:406-407: if len(results) >= max_results: break
BreakAt(count, n) == count >= n

\* search_engine.py:364-378 search_by_regex: the SELECT with its LIMIT runs
SR_Execute ==
    /\ qpc = "regex"
    /\ cursor_rows' = FirstN(TypedRows(file_type), limit * overfetch)
    /\ qpc' = "filter"
    /\ UNCHANGED <<argVars, examined, regex_results, parsed_query, sql, results, pipeVars,
                   hvars, guiVars, openVars, walkVars, readVars, connVars, batchVars>>

\* search_engine.py:395-407: the next row of the cursor is tested against the
\* pattern; a match is appended, and the loop is left when max_results are
\* found
SR_Examine ==
    /\ qpc = "filter"
    /\ cursor_rows # <<>>
    /\ cursor_rows' = Tail(cursor_rows)
    /\ examined' = Append(examined, Head(cursor_rows))
    /\ IF ReSearch(se_query, Table[Head(cursor_rows)].filename)
       THEN /\ regex_results' = Append(regex_results, Head(cursor_rows))
            /\ results' = results \cup {Head(cursor_rows)}
            /\ qpc' = IF BreakAt(Len(regex_results) + 1, limit) THEN "done" ELSE "filter"
       ELSE UNCHANGED <<regex_results, results, qpc>>
    /\ UNCHANGED <<argVars, parsed_query, sql, pipeVars, hvars, guiVars, openVars, walkVars, readVars, connVars, batchVars>>

\* search_engine.py:395, 411: the cursor is exhausted; return results
SR_Return ==
    /\ qpc = "filter"
    /\ cursor_rows = <<>>
    /\ qpc' = "done"
    /\ UNCHANGED <<argVars, regexVars, parsed_query, sql, results, pipeVars, hvars, guiVars,
                   openVars, walkVars, readVars, connVars, batchVars>>

\* The patterns search_by_regex is called with, and the limits a caller passes.
RegexPatterns == {<<"a">>, <<"b">>, <<"a", ".", "b">>, <<"a", "b">>, <<"z">>}
Limits == 0..(max_results + 2)

\* SearchEngine.search(query, file_type[, max_results]) or
\* SearchEngine.search_by_regex(regex_pattern, file_type[, max_results]) is
\* called on the table; without the third argument max_results is the default.
InitQuery ==
    /\ InitIndexer
    /\ InitGui
    /\ InitOpened
    /\ InitWalkIdle
    /\ nameBad = FALSE
    /\ dbAnswers = {"ok"}
    /\ \/ qpc = "start" /\ se_query \in QuerySet
       \/ qpc = "regex" /\ se_query \in RegexPatterns
    /\ file_type \in {"", ".txt"}
    /\ limit_passed \in BOOLEAN
    /\ limit \in IF limit_passed THEN Limits ELSE {max_results}
    /\ parsed_query = [type |-> "none"]
    /\ sql = [where |-> [kind |-> "none"]]
    /\ results = {}
    /\ cursor_rows = <<>>
    /\ examined = <<>>
    /\ regex_results = <<>>
    /\ InitReadIdle
    /\ InitHandles
    /\ InitBatchIdle

NextQuery ==
    \/ SE_Route
    \/ SE_SimpleBuild
    \/ SE_Parse
    \/ SE_Build
    \/ SE_Execute
    \/ SR_Execute
    \/ SR_Examine
    \/ SR_Return

SpecQuery == InitQuery /\ [][NextQuery]_vars

(***************************************************************************)
(* SpecThread: one SearchThread runs to its end with a query of any shape, *)
(* and the event loop delivers what it emits.                              *)
(***************************************************************************)
ThreadQueries ==
    { <<"a">>,
      <<"a", " ", "AND", " ", "b">>,
      <<"a", "*">>,
      <<"NOT", " ", "a">>,
      <<"regex:", "a">>,
      <<"regex:", " ", "a", " ">>,
      <<"regex:", "a", " ", "AND", " ", "b">>,
      <<"regex:", "a", " ", "OR", " ", "b">>,
      <<"regex:", "NOT", " ", "a">>,
      <<"regex:", "a", "*">>,
      <<"regex:", "a", "?">>,
      <<"regex:", "(", "a">>,
      <<"regex:", "(", "a", " ", "AND", " ", "b", "*">> }

\* main_window.py:417-420: perform_search has created SearchThread 1 with the
\* query, connected its signals and started it.
InitThread ==
    /\ InitIndexer
    /\ InitAux
    /\ nameBad = FALSE
    /\ dbAnswers = {"ok"}
    /\ search_thread = 1
    /\ tpc = [t \in Searches |-> IF t = 1 THEN "check1" ELSE "new"]
    /\ stop_requested = [t \in Searches |-> FALSE]
    /\ connected = [t \in Searches |-> t = 1]
    /\ eventq = <<>>
    /\ upc = "loop"
    /\ emitted = {}
    /\ stale = {}
    /\ displayed = <<>>
    /\ query = <<>>
    /\ \E q \in ThreadQueries : st_query = [t \in Searches |-> IF t = 1 THEN q ELSE <<>>]
    /\ sres = [t \in Searches |-> [why |-> "none", path |-> "none", pattern |-> <<>>]]
    /\ errors = {}

NextThread ==
    \/ SearchThreadRun
    \/ DeliverEvent

SpecThread == InitThread /\ [][NextThread]_vars

(***************************************************************************)
(* SpecRead: one read of the table under lock contention, attempt by       *)
(* attempt, on each read path: SearchEngine._simple_search,                *)
(* _complex_search, search_by_regex and FileSystemIndexer.search.          *)
(***************************************************************************)
Paths == {"simple", "complex", "regex", "indexer"}

\* A DELETE in place of the SELECT
ExecuteDelete(table_rows) == {}

\* cursor.execute of a SELECT statement (search_engine.py:129, 185, 378,
\* indexer.py:341-353): the rows of the table are as before
ExecuteSelect(table_rows) == table_rows

\* The connection the read path executes on.
ReadConn == IF rpath = "indexer" THEN conn ELSE local_conn

\* search_engine.py:127-140, 183-196, 376-389: one pass of the retry loop.
\* The SELECT runs; on "database is locked" with retries left the loop goes
\* to its backoff, any other error and the last locked answer are re-raised.
\* indexer.py:336-370: FileSystemIndexer.search executes once; any
\* sqlite3.Error is caught and [] returned.
RD_Execute ==
    /\ rpc = "try"
    /\ attempts' = attempts + 1
    /\ dbrows' = [dbrows EXCEPT ![ReadConn] = ExecuteSelect(@)]
    /\ LET answer == IF has_table[ReadConn] THEN ranswers[attempts + 1] ELSE "operr"
       IN  /\ rerr' = IF answer = "ok" THEN "none" ELSE answer
           /\ rpc' = IF answer = "ok" THEN "returned"
                     ELSE IF /\ rpath # "indexer"
                             /\ answer = "locked"
                             /\ r_retry < search_max_retries - 1
                          THEN "backoff"
                     ELSE "failed"
    /\ UNCHANGED <<rpath, ranswers, r_retry, retry_delay, slept, reconnects, conn, thread_conn,
                   local_conn, has_table, opres, pipeVars, hvars, guiVars, walkVars, queryVars, connVars, batchVars>>

\* search_engine.py:133-138, 189-194, 382-387: time.sleep(retry_delay);
\* retry_delay *= 2; self.close(); conn, cursor = self._get_connection(),
\* which may fall back to a new in-memory database (lines 50-55)
RD_Backoff ==
    /\ rpc = "backoff"
    /\ slept' = Append(slept, retry_delay)
    /\ retry_delay' = retry_delay * 2
    /\ reconnects' = reconnects + 1
    /\ \E ok \in BOOLEAN : local_conn' = IF ok THEN "disk" ELSE "mem_engine"
    /\ r_retry' = r_retry + 1
    /\ rpc' = "try"
    /\ UNCHANGED <<rpath, ranswers, attempts, rerr, conn, thread_conn, has_table, dbrows, opres,
                   pipeVars, hvars, guiVars, walkVars, queryVars, connVars, batchVars>>

\* A read path is entered with its connection open on the database file; the
\* table holds any rows; the database answers each execute in any way.
InitRead ==
    /\ InitIndexer
    /\ InitGui
    /\ InitWalkIdle
    /\ InitQueryIdle
    /\ nameBad = FALSE
    /\ dbAnswers = {"ok"}
    /\ conn = "disk"
    /\ thread_conn = "none"
    /\ local_conn = "disk"
    /\ has_table = [d \in DBs |-> d = "disk"]
    /\ \E ks \in SUBSET {"a", "b"} : dbrows = [d \in DBs |-> IF d = "disk" THEN ks ELSE {}]
    /\ opres = [o \in Ops |-> "none"]
    /\ rpath \in Paths
    /\ ranswers \in [1..search_max_retries -> SearchAnswers]
    /\ rpc = "try"
    /\ r_retry = 0
    /\ retry_delay = 1
    /\ slept = <<>>
    /\ attempts = 0
    /\ reconnects = 0
    /\ rerr = "none"
    /\ InitHandles
    /\ InitBatchIdle

NextRead ==
    \/ RD_Execute
    \/ RD_Backoff

SpecRead == InitRead /\ [][NextRead]_vars

(***************************************************************************)
(* SpecConn: which thread calls which connection handle.                   *)
(***************************************************************************)
\* A call of thread t on handle h.
Call(h, t) == [handles EXCEPT ![h].users = @ \cup {t}]

\* indexer.py:174-180: the consumer thread opens thread_conn and runs its
\* PRAGMAs on it
CN_WorkerConnect ==
    /\ handles["thread_conn"].state = "none"
    /\ handles' = [handles EXCEPT !["thread_conn"] =
                     [state |-> "open", owner |-> "index", users |-> {"index"}]]
    /\ UNCHANGED <<pipeVars, hvars, guiVars, openVars, walkVars, queryVars, readVars, batchVars>>

\* indexer.py:221-226: the consumer thread commits and closes thread_conn
CN_WorkerClose ==
    /\ handles["thread_conn"].state = "open"
    /\ handles' = [Call("thread_conn", "index") EXCEPT !["thread_conn"].state = "closed"]
    /\ UNCHANGED <<pipeVars, hvars, guiVars, openVars, walkVars, queryVars, readVars, batchVars>>

\* search_engine.py:32-57, 69-90: a search called on thread t takes
\* self.local.conn of that thread, opening it if the thread has none, and
\* executes on it
CN_EngineSearch(t) ==
    /\ LET h == LocalHandle(t)
       IN  handles' = [handles EXCEPT ![h] =
                         IF @.state = "open"
                         THEN [@ EXCEPT !.users = @ \cup {t}]
                         ELSE [state |-> "open", owner |-> t, users |-> {t}]]
    /\ UNCHANGED <<pipeVars, hvars, guiVars, openVars, walkVars, queryVars, readVars, batchVars>>

\* search_engine.py:59-67 close, called on thread t: closes self.local.conn of
\* that thread
CN_EngineClose(t) ==
    /\ handles[LocalHandle(t)].state = "open"
    /\ handles' = [Call(LocalHandle(t), t) EXCEPT ![LocalHandle(t)].state = "closed"]
    /\ UNCHANGED <<pipeVars, hvars, guiVars, openVars, walkVars, queryVars, readVars, batchVars>>

\* indexer.py:325-370 FileSystemIndexer.search, called on thread t: under
\* db_lock, self.cursor.execute on the handle setup_database opened
CN_IndexerSearch(t) ==
    /\ handles["self.conn"].state = "open"
    /\ handles' = Call("self.conn", t)
    /\ UNCHANGED <<pipeVars, hvars, guiVars, openVars, walkVars, queryVars, readVars, batchVars>>

\* indexer.py:316-323 stop, called on thread t: under db_lock,
\* self.conn.commit() and self.conn.close()
CN_Stop(t) ==
    /\ handles["self.conn"].state = "open"
    /\ handles' = [Call("self.conn", t) EXCEPT !["self.conn"].state = "closed"]
    /\ UNCHANGED <<pipeVars, hvars, guiVars, openVars, walkVars, queryVars, readVars, batchVars>>

InitConn ==
    /\ InitIndexer
    /\ InitGui
    /\ InitAux
    /\ nameBad = FALSE
    /\ dbAnswers = {"ok"}

NextConn ==
    \/ CN_WorkerConnect
    \/ CN_WorkerClose
    \/ \E t \in CallThreads : CN_EngineSearch(t)
    \/ \E t \in CallThreads : CN_EngineClose(t)
    \/ \E t \in CallThreads : CN_IndexerSearch(t)
    \/ \E t \in CallThreads : CN_Stop(t)

SpecConn == InitConn /\ [][NextConn]_vars

(***************************************************************************)
(* SpecBatch: one call of _execute_batch_insert, attempt by attempt, with  *)
(* its sleeps and its one-by-one fallback.                                 *)
(***************************************************************************)
\* The delay doubled at each retry
DoubleDelay(d) == d * 2

\* indexer.py:255: retry_delay *= 1.5
NextDelay(d) == (d * 3) \div 2

\* indexer.py:242-260: one pass of "for retry in range(max_retries)":
\* executemany and commit, then return; on sqlite3.OperationalError, "database
\* is locked" with retries left goes to the sleep; else the message is printed
\* and, at the last pass only, _insert_individually is called; at an earlier
\* pass the for loop takes its next pass.
BW_Attempt ==
    /\ bpc = "try"
    /\ LET answer == b_answers[b_retry + 1]
       IN  /\ b_tried' = Append(b_tried, answer)
           /\ IF answer = "ok"
              THEN /\ b_stored' = {b_batch[i] : i \in 1..Len(b_batch)}
                   /\ bpc' = "returned"
                   /\ UNCHANGED b_retry
              ELSE IF answer = "locked" /\ b_retry < max_retries - 1
              THEN /\ bpc' = "sleep"
                   /\ UNCHANGED <<b_retry, b_stored>>
              ELSE IF b_retry = max_retries - 1
              THEN /\ bpc' = "individual"
                   /\ UNCHANGED <<b_retry, b_stored>>
              ELSE /\ b_retry' = b_retry + 1
                   /\ UNCHANGED <<bpc, b_stored>>
    /\ UNCHANGED <<b_batch, b_answers, b_retry_delay, b_slept, b_individual, pipeVars, hvars,
                   guiVars, openVars, walkVars, queryVars, readVars, connVars>>

\* indexer.py:254-255: time.sleep(retry_delay); retry_delay *= 1.5; the for
\* loop takes its next pass
BW_Sleep ==
    /\ bpc = "sleep"
    /\ b_slept' = Append(b_slept, b_retry_delay)
    /\ b_retry_delay' = NextDelay(b_retry_delay)
    /\ b_retry' = b_retry + 1
    /\ bpc' = "try"
    /\ UNCHANGED <<b_batch, b_answers, b_tried, b_individual, b_stored, pipeVars, hvars,
                   guiVars, openVars, walkVars, queryVars, readVars, connVars>>

\* indexer.py:262-281 _insert_individually: every record is executed and
\* committed on its own, "except sqlite3.Error: pass" for each
BW_InsertIndividually ==
    /\ bpc = "individual"
    /\ b_individual' = TRUE
    /\ \E oks \in SUBSET {b_batch[i] : i \in 1..Len(b_batch)} : b_stored' = oks
    /\ bpc' = "returned"
    /\ UNCHANGED <<b_batch, b_answers, b_retry, b_retry_delay, b_slept, b_tried, pipeVars,
                   hvars, guiVars, openVars, walkVars, queryVars, readVars, connVars>>

\* indexer.py:239-240: _execute_batch_insert is entered with a batch; the
\* database answers each executemany in any way.
InitBatch ==
    /\ InitIndexer
    /\ InitGui
    /\ InitOpened
    /\ InitWalkIdle
    /\ InitQueryIdle
    /\ InitReadIdle
    /\ InitHandles
    /\ nameBad = FALSE
    /\ dbAnswers = {"ok"}
    /\ b_batch = <<"a", "b">>
    /\ b_answers \in [1..max_retries -> SearchAnswers]
    /\ bpc = "try"
    /\ b_retry = 0
    /\ b_retry_delay = base_delay
    /\ b_slept = <<>>
    /\ b_tried = <<>>
    /\ b_individual = FALSE
    /\ b_stored = {}

NextBatch ==
    \/ BW_Attempt
    \/ BW_Sleep
    \/ BW_InsertIndividually

SpecBatch == InitBatch /\ [][NextBatch]_vars

(***************************************************************************)
(* SpecLoop: the consumer loop of one pass alone, on a queue the scan      *)
(* threads (or another caller of file_queue.put) have filled.              *)
(***************************************************************************)
\* An item whose unpacking raises, put during pass c.
Faulty(c) == [k |-> Malformed, m |-> 0, p |-> c, by |-> "other"]

\* The items of a queue: "M" stands for a faulty item, "N" for the sentinel
\* of start_indexing, any other name for the event of that file.
Item(x) == IF x = "M" THEN Faulty(1)
           ELSE IF x = "N" THEN Sentinel(1, "start_indexing")
           ELSE Event(1, x)

LoopQueues ==
    { <<"a", "b", "x", "z", "N">>,
      <<"x", "a", "b", "z", "N">>,
      <<"a", "x", "b", "z">>,
      <<"a", "M", "b", "x", "z", "N">>,
      <<"M", "a", "b", "N">>,
      <<"a", "b", "M">>,
      <<"a", "M", "N">>,
      <<"a", "b", "x", "M", "z", "N">> }

\* indexer.py:116-136, 174-183: start_indexing has started the consumer, whose
\* connection is open and whose batch is empty; the scan threads have ended;
\* the sentinel is on the queue, or start_indexing has not put it yet.
InitLoop ==
    /\ \E q \in LoopQueues :
         /\ file_queue = [i \in 1..Len(q) |-> Item(q[i])]
         /\ cpc = [c \in Callers |-> IF c # 1 THEN "none"
                                     ELSE IF q[Len(q)] = "N" THEN "done" ELSE "put"]
         /\ putIds = {<<1, q[i]>> : i \in {j \in 1..Len(q) : q[j] \notin {"M", "N"}}}
                       \cup {<<1, Malformed>> : i \in {j \in 1..Len(q) : q[j] = "M"}}
    /\ store = <<>>
    /\ index_thread = 1
    /\ db_lock = "free"
    /\ mainConn = "open"
    /\ wst = [c \in Callers |-> [d \in Drives |-> IF c = 1 THEN "done" ELSE "none"]]
    /\ todo = [c \in Callers |-> [d \in Drives |-> <<>>]]
    /\ kpc = [c \in Callers |-> IF c = 1 THEN "get" ELSE "none"]
    /\ kconn = [c \in Callers |-> IF c = 1 THEN "open" ELSE "none"]
    /\ batch = [c \in Callers |-> <<>>]
    /\ retry = [c \in Callers |-> 0]
    /\ ctx = [c \in Callers |-> "none"]
    /\ idx = [c \in Callers |-> 0]
    /\ kexit = [c \in Callers |-> "none"]
    /\ txn = [c \in Callers |-> <<>>]
    /\ spc = "idle"
    /\ sawAlive = FALSE
    /\ deqCount = [e \in EventIds |-> 0]
    /\ handed = {}
    /\ sawNone = [c \in Callers |-> FALSE]
    /\ lockedOnly = [c \in Callers |-> TRUE]
    /\ fellBack = {}
    /\ indiv = {}
    /\ written = {}
    /\ discarded = {}
    /\ stopLog = <<>>
    /\ batchAtStop = {}
    /\ queueAtStop = {}
    /\ lastUpsert = [k \in Keys |-> 0]
    /\ InitGui
    /\ InitAux
    /\ nameBad \in BOOLEAN
    /\ dbAnswers \in {{"ok"}, {"ok", "locked"}, {"ok", "dberr"}}

NextLoop ==
    \/ ConsumerGet(1)
    \/ ConsumerTimeout(1)
    \/ BatchAttempt(1)
    \/ InsertOne(1)

SpecLoop == InitLoop /\ [][NextLoop]_vars

(***************************************************************************)
(* SpecFair: one scan pass, every thread that can take a step eventually   *)
(* takes one (the scan threads, the consumer thread and the caller of      *)
(* start_indexing are operating-system threads; a blocked file_queue.get   *)
(* returns after its 60 s timeout at the latest).                          *)
(***************************************************************************)
NextPass ==
    \/ MainWindow_start_indexing(1)
    \/ StartIndexing
    \/ Worker
    \/ Consumer

Fairness ==
    /\ WF_vars(StartIndexing)
    /\ WF_vars(Worker)
    /\ WF_vars(Consumer)

SpecFair == Init /\ [][NextPass]_vars /\ Fairness

(***************************************************************************)
(* Properties                                                              *)
(***************************************************************************)
\* Every caller of start_indexing has returned and every consumer has ended.
AllEnded == \A c \in Callers : cpc[c] \in {"returned", "done"} /\ ~is_alive(c)

\* C1: as long as stop() is not called, no event is dequeued twice, and once
\* every thread has ended (no consumer having died of an exception) every event
\* that was put on the queue has been dequeued exactly once and handed to a
\* store write.
C1_ConsumedExactlyOnce ==
    /\ \A e \in EventIds : deqCount[e] <= 1
    /\ (AllEnded /\ \A c \in Callers : kexit[c] \in {"none", "clean"})
         => \A e \in putIds : deqCount[e] = 1 /\ e \in handed

\* C2: after any sequence of upserts (batches, retried batches, one-by-one
\* fallback) the store holds at most one row per (directory, filename), and that
\* row carries the metadata of the latest committed upsert of the key.
C2_OneRowPerKeyLatestWins ==
    /\ \A i, j \in 1..Len(store) : store[i].k = store[j].k => i = j
    /\ \A i \in 1..Len(store) : store[i].m = lastUpsert[store[i].k]

\* C2 witness: file a was upserted by the first pass and upserted again, with
\* new metadata, by the second.
C2_Witness ==
    /\ <<1, "a">> \in written
    /\ <<2, "a">> \in written
    /\ \E i \in 1..Len(store) : store[i].k = "a" /\ store[i].m = Stat(2, "a")

\* C3: a pass starts one scan thread per drive; its sentinel is put only after
\* every scan thread of the pass has finished, and no event of the pass stands
\* behind the pass's sentinel in the queue.
C3_SentinelAfterAllWorkers ==
    \A c \in Callers :
      /\ cpc[c] \in {"join", "put", "done"} => \A d \in Drives : wst[c][d] # "none"
      /\ cpc[c] \in {"put", "done"} => \A d \in Drives : wst[c][d] = "done"
      /\ \A i, j \in 1..Len(file_queue) :
           (i < j /\ file_queue[i] = Sentinel(c, "start_indexing"))
             => ~(IsEvent(file_queue[j]) /\ file_queue[j].p = c)

\* C3 witness: the first pass has put its sentinel after the events of both
\* drives, and the sentinel is still in the queue.
C3_Witness ==
    /\ cpc[1] = "done"
    /\ {<<1, "a">>, <<1, "x">>, <<1, "b">>} \subseteq putIds
    /\ \E i \in 1..Len(file_queue) : file_queue[i] = Sentinel(1, "start_indexing")

\* C4: a consumer that has dequeued the sentinel and has ended has written its
\* pending batch to the store and has closed its connection.
C4_SentinelFlushesPending ==
    \A c \in Callers :
      (kpc[c] = "done" /\ sawNone[c])
        => EventIdsOf(batch[c]) \subseteq written /\ kconn[c] = "closed"

\* C5: at every moment at most one consumer thread is alive.
C5_AtMostOneConsumer == Cardinality({c \in Callers : is_alive(c)}) <= 1

\* C6: when a batch write failed on a lock at every one of its attempts, every
\* record of the batch has been attempted individually once the fallback is
\* over, and every record committed is in the store.
C6_FallbackAttemptsAll ==
    /\ (\A c \in Callers : kpc[c] # "individual") => fellBack \subseteq indiv
    /\ \A e \in written : \E i \in 1..Len(store) : store[i].k = e[2]

\* C7: after _execute_batch_insert was called with a batch that holds a record
\* the store rejects, the batch is not left pending and its other records are
\* in the store.
C7_BadRecordIsolated ==
    \A c \in Callers :
      (/\ kpc[c] \in {"get", "done"}
       /\ HasUnbindable(batch[c])
       /\ EventIdsOf(batch[c]) \subseteq handed)
        => /\ kpc[c] = "done"
           /\ \A i \in 1..Len(batch[c]) :
                ~Unbindable(batch[c][i]) => Id(batch[c][i]) \in written

FullStop == <<"drain", "sentinel", "join", "close">>

IsPrefix(s, t) == Len(s) <= Len(t) /\ SubSeq(t, 1, Len(s)) = s

C9_StopFlushesBatch ==
    (spc = "done" /\ sawAlive)
      => batchAtStop \subseteq written /\ queueAtStop \subseteq discarded

\* C10: the results of a search that was superseded (perform_search ran for a
\* newer query before it emitted) are never delivered to display_results.
C10_NoStaleDelivery == \A i \in 1..Len(displayed) : displayed[i] \notin stale

\* C11: a search whose database call failed and whose results were emitted has
\* also emitted the error notification, so that a failed search can be told
\* from a search without matches.
C11_FailedSearchNotified == \A t \in emitted : sres[t].why = "store" => t \in errors

\* C12: a malformed regex pattern raises no exception out of search_by_regex:
\* SearchThread.run is never in its except branch because of the pattern.
C12_PatternErrorCaughtInEngine ==
    \A t \in Searches : sres[t].why = "pattern" => tpc[t] \notin {"xcheck", "xemit", "xemit2"}

\* C13: when setup_database fell back to the in-memory database, that
\* database has the table, the consumer writes to that same database, and no
\* upsert and no query fails.
C13_FallbackUsable ==
    conn = "mem_indexer"
      => /\ has_table["mem_indexer"]
         /\ thread_conn \in {"none", "mem_indexer"}
         /\ \A o \in Ops : opres[o] # "error"

\* The directory that holds file f, the parent of directory d ("r" has none),
\* and the directories on the path from the root to x.
DirOf(f) == CHOOSE d \in TreeDirs : f \in SeqToSet(FilesOf[d])
ParentOf(d) == CHOOSE e \in TreeDirs : d \in SeqToSet(SubdirsOf[e])
RECURSIVE PathTo(_)
PathTo(d) == IF d = "r" THEN {"r"} ELSE {d} \cup PathTo(ParentOf(d))
Reachable == {f \in TreeFiles : f \notin unstatable /\ PathTo(DirOf(f)) \cap unreadable = {}}

\* C14: whatever directories are unreadable and whatever files fail os.stat,
\* scan_directory goes on until the walk is exhausted, and has then put exactly
\* one event for each file whose stat succeeds and whose directories, up to the
\* root, are all readable.
C14_ScanSkipsOnlyBadPaths ==
    /\ \A i, j \in 1..Len(wqueue) : wqueue[i] = wqueue[j] => i = j
    /\ SeqToSet(wqueue) \subseteq Reachable
    /\ wpc = "done" => SeqToSet(wqueue) = Reachable
    /\ wpc = "walk" => ENABLED NextWalk

\* C14 witness: the scan has finished after it met a file it could not stat
\* and a directory it could not read, and has put the events of the files
\* that came after them.
C14_Witness ==
    /\ wpc = "done"
    /\ unstatable = {"f1"}
    /\ unreadable = {"d1"}
    /\ wqueue = <<"f2", "f5">>

\* The values of the Terms of a parsed query, in order.
ParsedTerms(p) ==
    IF p.type = "simple" THEN <<p.value>>
    ELSE IF p.type \in {"and", "or"} THEN [i \in 1..Len(p.operands) |-> p.operands[i].value]
    ELSE IF p.type = "not" THEN <<p.operand.value>>
    ELSE <<>>

\* The LIKE patterns of a predicate, in order.
Patterns(w) ==
    IF w.kind = "like" THEN <<w.pattern>>
    ELSE IF w.kind \in {"and", "or"} THEN [i \in 1..Len(w.clauses) |-> w.clauses[i].pattern]
    ELSE IF w.kind = "not" THEN <<w.clause.pattern>>
    ELSE <<>>

\* The query went through _complex_search and has been parsed.
Parsed == qpc \in {"parsed", "built", "done"} /\ parsed_query.type # "none"

\* C15: when the query holds '*' or '?', no Term of the parsed tree, top-level
\* or child of And / Or / Not, still holds a '*' or a '?': all were replaced
\* by '%' and '_'.
C15_EveryTermNormalized ==
    (Parsed /\ HasWildcard(se_query))
      => \A i \in 1..Len(ParsedTerms(parsed_query)) : ~HasWildcard(ParsedTerms(parsed_query)[i])

\* The Terms as the user wrote them: the children of an operator are kept as
\* written, a single Term is the query itself.
UserTerms == IF parsed_query.type = "simple" THEN <<se_query>> ELSE ParsedTerms(parsed_query)

\* C16: the pattern of a Term in which the user wrote no '*' and no '?' is the
\* Term wrapped in '%', whatever characters the Term holds; only a Term with an
\* explicit wildcard is used as the pattern as it is.
C16_VerbatimOnlyWithWildcard ==
    (Parsed /\ qpc \in {"built", "done"})
      => \A i \in 1..Len(UserTerms) :
           HasWildcard(UserTerms[i]) \/ Patterns(sql.where)[i] = Wrap(UserTerms[i])

\* search was called (not search_by_regex), and has built its statement.
SearchPath == sql.where.kind # "none"

\* rs is E, or limit rows of E when E holds more.
UpToLimit(rs, E) ==
    /\ rs \subseteq E
    /\ Cardinality(rs) = IF Cardinality(E) <= limit THEN Cardinality(E) ELSE limit

\* The rows that pass the type filter of the call.
Typed == {r \in Rows : file_type # "" => Table[r].file_type = file_type}

\* The query holds no operator / no operator and no wildcard.
SingleTerm(q) == ~Contains(q, AND_) /\ ~Contains(q, OR_) /\ ~startswith(q, NOT_)
PlainText(q) == SingleTerm(q) /\ ~HasWildcard(q)

\* C17: a plain-text query returns, up to the limit, exactly the rows whose
\* filename holds the query text as a substring, character for character (and
\* whose type is the filter's, when a filter is given).
C17_PlainTextIsSubstring ==
    (qpc = "done" /\ SearchPath /\ PlainText(se_query))
      => UpToLimit(results, {r \in Typed : Contains(Table[r].filename, se_query)})

\* C18: for terms a and b without wildcards, "a AND b" returns only rows whose
\* filename holds both, "a OR b" returns (up to the limit) exactly the rows
\* whose filename holds a or b, "NOT a" returns no row whose filename holds a.
C18_BooleanOperators ==
    (qpc = "done" /\ SearchPath) =>
      \A a, b \in {t \in Terms : ~HasWildcard(t)} :
        /\ se_query = a \o AND_ \o b
             => \A r \in results : /\ Contains(Table[r].filename, a)
                                   /\ Contains(Table[r].filename, b)
        /\ se_query = a \o OR_ \o b
             => UpToLimit(results, {r \in Typed : \/ Contains(Table[r].filename, a)
                                                  \/ Contains(Table[r].filename, b)})
        /\ se_query = NOT_ \o a
             => \A r \in results : ~Contains(Table[r].filename, a)

\* The places where sep occurs in q, the n-th of them, and the n-th piece of q
\* between them.
Occ(q, sep) == {i \in 1..(Len(q) - Len(sep) + 1) : SubSeq(q, i, i + Len(sep) - 1) = sep}
Nth(S, n) == CHOOSE i \in S : Cardinality({j \in S : j < i}) = n - 1
Piece(q, sep, n) ==
    SubSeq(q, IF n = 1 THEN 1 ELSE Nth(Occ(q, sep), n - 1) + Len(sep),
              IF n = Cardinality(Occ(q, sep)) + 1 THEN Len(q) ELSE Nth(Occ(q, sep), n) - 1)
PiecesAsTerms(p, q, sep) ==
    /\ Len(p.operands) = Cardinality(Occ(q, sep)) + 1
    /\ \A n \in 1..Len(p.operands) : p.operands[n] = Simple(strip(Piece(q, sep, n)))

\* C19: the parsed tree is an And of the plain Terms between the " AND "s when
\* the query holds " AND "; else an Or of the plain Terms between the " OR "s
\* when it holds " OR "; else a Not of the plain Term after a leading "NOT ";
\* else a single Term. No child is itself an operator.
C19_SingleLevelFixedOrder ==
    Parsed =>
      IF Occ(se_query, AND_) # {}
      THEN parsed_query.type = "and" /\ PiecesAsTerms(parsed_query, se_query, AND_)
      ELSE IF Occ(se_query, OR_) # {}
      THEN parsed_query.type = "or" /\ PiecesAsTerms(parsed_query, se_query, OR_)
      ELSE IF Len(se_query) >= 2 /\ <<se_query[1], se_query[2]>> = NOT_
      THEN parsed_query = [type |-> "not",
                           operand |-> Simple(strip(SubSeq(se_query, 3, Len(se_query))))]
      ELSE parsed_query.type = "simple"

\* C19 witness: "a AND b OR c" has been parsed into And[Term a, Term "b OR c"].
C19_Witness ==
    /\ qpc = "parsed"
    /\ se_query = <<"a">> \o AND_ \o <<"b">> \o OR_ \o <<"c">>
    /\ parsed_query = [type |-> "and",
                       operands |-> <<Simple(<<"a">>), Simple(<<"b">> \o OR_ \o <<"c">>)>>]

\* pattern matches the whole of s, '*' standing for any sequence of characters,
\* '?' for exactly one, every other character for itself.
RECURSIVE Glob(_, _)
Glob(pattern, s) ==
    IF pattern = <<>> THEN s = <<>>
    ELSE IF Head(pattern) = "*"
         THEN Glob(Tail(pattern), s) \/ (s # <<>> /\ Glob(pattern, Tail(s)))
    ELSE IF Head(pattern) = "?"
         THEN s # <<>> /\ Glob(Tail(pattern), Tail(s))
    ELSE s # <<>> /\ Head(s) = Head(pattern) /\ Glob(Tail(pattern), Tail(s))

\* C20: a single-term query with wildcards returns, up to the limit, exactly
\* the rows whose whole filename matches the pattern, '*' standing for any
\* sequence of characters and '?' for exactly one.
C20_WildcardWholeName ==
    (qpc = "done" /\ SearchPath /\ SingleTerm(se_query) /\ HasWildcard(se_query))
      => UpToLimit(results, {r \in Typed : Glob(se_query, Table[r].filename)})

\* C21: with an extension filter, a search returns (up to the limit) exactly
\* the rows that satisfy the predicate of the query and have that extension,
\* for a single Term, an And, an Or and a Not alike.
C21_FilterOnWholePredicate ==
    (qpc = "done" /\ SearchPath /\ file_type # "")
      => UpToLimit(results, {r \in Rows : /\ Holds(sql.where, Table[r].filename)
                                          /\ Table[r].file_type = file_type})

\* C21 witness: "a OR b" and "NOT a" were searched with the filter ".txt",
\* rows of another extension match their predicate, and only ".txt" rows
\* were returned.
C21_Witness ==
    /\ qpc = "done"
    /\ file_type = ".txt"
    /\ se_query \in {<<"c">> \o OR_ \o <<"b">>, NOT_ \o <<"c">>}
    /\ \E r \in Rows : Holds(sql.where, Table[r].filename) /\ Table[r].file_type # ".txt"
    /\ results # {}
    /\ \A r \in results : Table[r].file_type = ".txt"

C23_ClampedToDefault == qpc = "done" => Cardinality(results) <= max_results

\* search_by_regex was called, and has fetched its rows.
RegexPath == qpc \in {"filter", "done"} /\ sql.where.kind = "none"

\* The first overfetch * limit rows the store returns for the call, and the
\* rows among a sequence of rows whose filename the pattern matches.
Window == FirstN(TypedRows(file_type), overfetch * limit)
Matching(rows) == SelectSeq(rows, LAMBDA r : ReSearch(se_query, Table[r].filename))

\* C24: a regex search examines the rows of the window only, in store order;
\* it examines no row once limit matches are found; and it returns the first
\* min(limit, matches in the window) matching rows of the window, in order.
C24_RegexWindow ==
    RegexPath =>
      /\ IsPrefix(examined, Window)
      /\ regex_results = Matching(examined)
      /\ \A k \in 1..Len(examined) :
           Len(Matching(SubSeq(examined, 1, k - 1))) < limit
      /\ qpc = "done" => regex_results = FirstN(Matching(Window), limit)

\* C24 witness: a regex search with limit 1 has examined its whole window
\* without a match and returned nothing, although a row beyond the window
\* matches.
C24_Witness ==
    /\ RegexPath
    /\ qpc = "done"
    /\ se_query = <<"a", "b">>
    /\ file_type = ""
    /\ limit = 1
    /\ examined = Window
    /\ regex_results = <<>>
    /\ \E r \in Rows : ReSearch(se_query, Table[r].filename)

\* C25: on every read path, a read that fails on "database is locked" has
\* made all its attempts, has slept the growing delays between them and has
\* reconnected before retrying; no failure is reported before the last
\* attempt.
C25_ReadRetries ==
    (rpc = "failed" /\ rerr = "locked")
      => /\ attempts = search_max_retries
         /\ slept = <<1, 2>>
         /\ reconnects = search_max_retries - 1

\* C27: no step of a read changes the rows of any database.
C27_QueriesDoNotMutate == [][dbrows' = dbrows]_vars

\* C27 witness: a search has returned after two locked attempts and two
\* reconnects, on a table that holds rows.
C27_Witness ==
    /\ rpc = "returned"
    /\ rpath \in {"simple", "complex", "regex"}
    /\ reconnects = 2
    /\ dbrows["disk"] = {"a", "b"}


\* C26: at most one SearchThread of the search window is running at any time.
C26_OneSearchThread == Cardinality({t \in Searches : isRunning(t)}) <= 1


\* C28: a query that starts with "regex:" is run by search_by_regex with the
\* stripped remainder as its pattern, whatever operators or wildcards the
\* remainder holds; neither _simple_search nor _complex_search runs for it.
C28_RegexBypassesParser ==
    \A t \in Searches :
        (sres[t].why # "none" /\ st_query[t] # <<>> /\ Head(st_query[t]) = "regex:")
          => /\ sres[t].path = "regex"
             /\ sres[t].pattern = strip(Tail(st_query[t]))

\* C28 witness: a regex: query whose remainder holds " AND " has been
\* searched without error, and its thread has ended.
C28_Witness ==
    \E t \in Searches :
        /\ st_query[t] = <<"regex:", "a", " ", "AND", " ", "b">>
        /\ sres[t].why = "ok"
        /\ sres[t].path = "regex"
        /\ tpc[t] = "finished"


\* C29: every connection handle is called only by the thread that opened it.
C29_OwnConnectionPerThread ==
    \A h \in Handles : handles[h].state # "none" => handles[h].users \subseteq {handles[h].owner}


\* C30: in the consumer loop a queue timeout ends the loop: with a pending
\* batch, the loop has ended when the flush of that batch returns; with an
\* empty batch, the loop ends at once and the thread ends cleanly.
C30_TimeoutEndsLoop ==
    [][\A c \in Callers :
         /\ (ctx[c] = "timeout" /\ ctx'[c] = "none") => kpc'[c] = "done"
         /\ (kpc[c] = "get" /\ file_queue = <<>> /\ batch[c] = <<>> /\ kpc'[c] # "get")
              => (kpc'[c] = "done" /\ kexit'[c] = "clean")]_vars


\* The waits of 1.0 s, 1.5 s, 2.25 s and 3.375 s, in sixteenths of a second.
Delays == <<16, 24, 36, 54>>

\* Every executemany that failed so far failed on "database is locked".
OnlyLockFailures == \A i \in 1..Len(b_tried) : b_tried[i] \in {"locked", "ok"}

\* C31: a batch write under lock contention is attempted as a batch at most
\* max_retries times; the waits slept before the 2nd, 3rd, 4th and 5th attempt
\* are 1.0 s, 1.5 s, 2.25 s and 3.375 s; no wait follows the last attempt; a
\* successful attempt returns at once, the batch committed, without
\* _insert_individually.
C31_BatchRetryBackoff ==
    /\ Len(b_tried) <= max_retries
    /\ Len(b_tried) = max_retries => (bpc # "sleep" /\ Len(b_slept) <= max_retries - 1)
    /\ (bpc # "idle" /\ OnlyLockFailures)
         => b_slept = SubSeq(Delays, 1, IF bpc = "try" THEN Len(b_tried) ELSE Len(b_tried) - 1)
    /\ (b_tried # <<>> /\ b_tried[Len(b_tried)] = "ok")
         => /\ bpc = "returned"
            /\ ~b_individual
            /\ b_stored = {b_batch[i] : i \in 1..Len(b_batch)}

\* C31 witness: four locked attempts, each followed by its wait, and a fifth
\* attempt that succeeded.
C31_Witness ==
    /\ bpc = "returned"
    /\ b_tried = <<"locked", "locked", "locked", "locked", "ok">>
    /\ b_slept = Delays
    /\ ~b_individual

\* C38: a batch write that failed with a database error other than "database
\* is locked" is not attempted again as a batch.
C38_OnlyLockRetried == \A i \in 1..Len(b_tried) : b_tried[i] = "operr" => i = Len(b_tried)


\* C32: the pending batch of a consumer never holds more than batch_size
\* events.
C32_BatchAtMostBatchSize == \A c \in Callers : Len(batch[c]) <= batch_size


\* C33: whenever no call of start_indexing is under way, no scan thread and
\* no consumer thread is running, the queue is empty: it holds no event and
\* no sentinel.
C33_QueueEmptyWhenIdle ==
    (/\ \A c \in Callers : cpc[c] \in {"none", "returned", "done"} /\ ~is_alive(c)
     /\ \A c \in Callers, d \in Drives : wst[c][d] # "run")
      => file_queue = <<>>


\* The scan pass of caller 1 has ended: its scan threads have finished, the
\* sentinel has been put and start_indexing has returned, and its consumer
\* thread has ended.
PassEnded ==
    /\ cpc[1] = "done"
    /\ \A d \in Drives : wst[1][d] = "done"
    /\ kpc[1] = "done"

\* C34: under fair scheduling every scan pass that was started ends: all scan
\* threads finish, the sentinel is enqueued and the consumer thread exits,
\* whatever the database answers to the batch writes and whichever file
\* names cannot be bound.
C34_PassTerminates == (cpc[1] = "start") ~> PassEnded

\* C34 witness: the pass has ended after a batch write that met lock
\* contention at every batch attempt and went through the one-by-one fallback.
C34_Witness == PassEnded /\ fellBack # {} /\ indiv # {}


\* When the store accepts every write, every event the ended consumer has
\* dequeued has been committed.
DequeuedArePersisted ==
    (dbAnswers = {"ok"} /\ ~nameBad /\ kpc[1] = "done")
      => \A e \in EventIds : deqCount[e] > 0 => e \in written

\* C35: the step that dequeues an item whose unpacking raises leaves the
\* consumer in its loop, at the next file_queue.get, with its pending batch
\* as it was and no exit recorded; and every valid event dequeued before or
\* after it is persisted by the time the consumer has ended.
C35_UnpackErrorSkipped ==
    [][/\ (/\ file_queue # <<>>
           /\ Head(file_queue).k = Malformed
           /\ file_queue' = Tail(file_queue))
            => (kpc'[1] = "get" /\ batch' = batch /\ kexit' = kexit)
       /\ DequeuedArePersisted']_vars

\* C35 witness: the consumer has ended after a queue that held a faulty item
\* between valid events, and the four valid events are committed.
C35_Witness ==
    /\ <<1, Malformed>> \in putIds
    /\ file_queue = <<>>
    /\ kpc[1] = "done"
    /\ kexit[1] = "clean"
    /\ dbAnswers = {"ok"}
    /\ written = {<<1, "a">>, <<1, "b">>, <<1, "x">>, <<1, "z">>}


\* The mapping from (directory, filename) to metadata that the rows hold, and
\* whether the rows hold one row per key.
Mapping(rows) == {<<rows[i].k, rows[i].m>> : i \in 1..Len(rows)}
OneRowPerKey(rows) == \A i, j \in 1..Len(rows) : rows[i].k = rows[j].k => i = j

\* C36: in a scan pass that emits each key once, the store's mapping is
\* determined by the set of events committed, whatever the order in which the
\* scan threads put them and however the consumer split them into batches;
\* and writing the pending batch a second time right after writing it leaves
\* the mapping as the first write made it, one row per key.
C36_ReorderingSafe ==
    /\ OneRowPerKey(store)
    /\ Mapping(store) = {<<e[2], Stat(e[1], e[2])>> : e \in written}
    /\ \A c \in Callers :
         LET once == ExecuteMany(store, batch[c])
             twice == ExecuteMany(once, batch[c])
         IN  Mapping(twice) = Mapping(once) /\ OneRowPerKey(twice)

\* C36 witness: the pass has ended with the three events committed, stored in
\* an order that is neither drive's walk order followed by the other's.
C36_Witness ==
    /\ PassEnded
    /\ written = {<<1, "a">>, <<1, "x">>, <<1, "b">>}
    /\ Len(store) = 3
    /\ store[1].k = "x"
    /\ store[2].k = "a"
    /\ store[3].k = "b"


\* C37: a SearchThread emits results_ready or error_occurred only in a step
\* at whose start its stop flag is not set.
C37_StoppedThreadEmitsNothing ==
    [][\A t \in Searches :
         (t \in emitted' \ emitted \/ t \in errors' \ errors) => ~stop_requested[t]]_vars

=============================================================================
